---- MODULE Spec2Model ----
(***************************************************************************)
(* A model of github.com/saylorsolutions/cache: the lazily loaded Value    *)
(* (package cache), the keyed MultiCache built from Values, the            *)
(* double-buffered MultiCache (package buffered) and the file-backed       *)
(* Value fed by a filesystem watcher (package file).                       *)
(*                                                                         *)
(* A Value lives in a slot <<cache, key>>: the stand-alone Value is the    *)
(* slot V, the Values of a MultiCache c are the slots <<c, k>>.  Goroutines *)
(* are the processes of Procs; pc[p] is the place a goroutine has reached  *)
(* in the call it is executing and at[p] the cache that call works on.     *)
(* Sections that run under a lock without blocking are single steps;       *)
(* a step that needs a lock is enabled only when the lock can be taken.    *)
(***************************************************************************)
EXTENDS Integers, Sequences, FiniteSets, TLC

\* ------------------------------------------------------------- bounds
Procs == {"p1", "p2"}
TTLs == {1, 2}
\* the clock stops at MaxTime
MaxTime == 3
\* and, in the runs of a Value with read-refresh switched on, at MaxRefreshTime
MaxRefreshTime == 4
\* calls made in a run
MaxCalls == 3
\* events the filesystem watcher holds undelivered
MaxEvents == 2
\* the calls made on the buffered MultiCache where every call is followed
\* to its return
MaxBufCalls == 2

\* ---------------------------------------------------------- constants
\* c.val == nil: the Value holds nothing (values are numbers >= 0)
Nil == -1
\* a Get that returned a non-nil error: the error of the loader, or the
\* "ttl <= 0" error of the loadFunc NewWithTTL builds
Err == -2
ErrTtl == -3
Errs == {Err, ErrTtl}
\* what a caller that recovers observes of panic("ttl <= 0")
Panic == -4
\* fmt.Errorf("... key '%v': %w", k, e): the error e wrapped with the key k;
\* WrapKey and Unwrap read the two parts back (WrapKey is 0 for a bare error)
Wrap(k, e) == e - 10 * k
WrapKey(x) == (0 - x) \div 10
Unwrap(x) == 0 - ((0 - x) % 10)
\* no goroutine (a free lock), no call
None == "none"
V == <<"v", 0>>
\* a second Value that stands alone
V2 == <<"v", 1>>
Keys == {1, 2}
Caches == {"r", "w"}
Slot == {V, V2} \cup (Caches \X Keys)

VARIABLES
    \* Value (src/unnamed/part_001:341-350), one per slot
    val, ttl, expiration, getRefreshes, onInvalidate, mux,
    \* how the Value in V was constructed: "New", "NewWithTTL" or "File"
    \* (by file.NewReaderCache)
    kind,
    \* MultiCache (src/multicache.go:14-19), one per cache: the keys of
    \* m.values, the goroutines holding m.lock.RLock, and m.ttl
    values, lock, mcTtl,
    \* buffered: the TypedAtomic values made so far, atoms[a] is what atom a holds
    atoms,
    \* file: the parent context and the context derived from it are done,
    \* the place of the watcher goroutine, the events and errors the watcher
    \* has not delivered yet, the content of the file, the calls the
    \* NotifyLog received
    parentDone, ctxDone, wpc, events, errs, fileVer, log,
    \* goroutines
    pc, at, op, key, res, loc,
    \* the clock (time.Now) and the number of calls made so far
    now, calls,
    \* history: what happened, read only by the properties
    okLoads, failedLoads, hookCalls, invCalls, expired,
    expReloads, epoch, failed, loadTime, setTime, refreshed, created, touch, ignored, heated,
    lastSet,
    done, superseded, cleared, seen, wBusy, closes

valueVars == <<val, ttl, expiration, getRefreshes, onInvalidate, mux, kind>>
multiVars == <<values, lock, mcTtl>>
procVars == <<pc, at, op, key, res, loc>>
histVars == <<okLoads, failedLoads, hookCalls, invCalls, expired,
              expReloads, epoch, failed, loadTime, setTime, refreshed, created,
              touch, ignored, heated, lastSet>>
bufVars == <<atoms, done, superseded, cleared>>
fileHist == <<seen, wBusy, closes>>
fileVars == <<parentDone, ctxDone, wpc, events, errs, fileVer, log, fileHist>>
vars == <<valueVars, multiVars, procVars, now, calls, histVars, bufVars, fileVars>>

\* time.Time{}: the zero time lies before every time.Now()
ZeroTime == 0

\* Locals of the call a goroutine is executing, and what the call observed.
\*   lttl      the ttl read by refreshTimer
\*   inv, exp  when the Get began: the number of Invalidate calls that had
\*             returned, and the values whose deadline had passed
\*   sawFail   when the Get began, the last load of the Value had failed and
\*             only Gets had touched the Value since
\*   busy      an Invalidate arrived while a load held the lock
\*   found     populate found the entry another goroutine had made
\*   sawOff    when the Get began SetTTL had been called, and
\*             EnableGetTTLRefresh has not been called since that SetTTL
\*   got       for a Value of NewWithTTL: the ttl the Value had when the load
\*             began and the duration the LoaderTTLFunc returned
\*   keys, i   the key list given to Preheat and the place of the next key
\*   hot       when the Get began a Preheat naming its key had returned nil
\*   dirty     a Set of the key was running when the Unset began, or was
\*             called before the Unset returned
\*   clr       when the Get began no Set of its key was running or had been
\*             called since the key was new or an Unset of it returned, and
\*             no Set of the key has been called since
\*   gone      when the Get began the watcher goroutine had returned on the
\*             cancelled context
\*   seen      when the Get began: the content the file had when the watcher
\*             last invalidated the Value (0: it has not yet)
\*   arg       the value a Set writes, the duration of a SetTTL or
\*             SetTTLPolicy call made by a goroutine of Procs
\*   pan       when the Get began a SetTTL or SetTTLPolicy call had panicked
\*   old       when a Set began: the values of the key whose write had
\*             returned; when a Get began: the values superseded by then
\*   when      the check under RLock ran before ("early") or after ("late")
\*             the deadline Deadline of the held value
\*   how       how the Get ended: "fast" (first check), "slow" (second check),
\*             "loaded" or "failed" (the loader was called)
\*   called    loader calls made by the Get
\*   stale     the Get was served a value stored before an Invalidate that had
\*             returned when the Get began
\*   dead      the Get was served, without a load, a value whose deadline had
\*             passed when the Get began
\*   hitFailed the Get was served from the cache although sawFail still held
\*   stuck     when the call began the loader of the other Value had called
\*             back into its Value
NoLoc == [lttl |-> 0, inv |-> 0, exp |-> {}, sawFail |-> FALSE, busy |-> FALSE,
          found |-> FALSE, sawOff |-> FALSE, got |-> <<0, 0>>,
          keys |-> << >>, i |-> 0, hot |-> FALSE, clr |-> FALSE, gone |-> FALSE, pan |-> FALSE,
          dirty |-> FALSE,
          seen |-> 0, arg |-> Nil, old |-> {},
          when |-> "", how |-> "", called |-> 0, stale |-> FALSE,
          dead |-> FALSE, hitFailed |-> FALSE, stuck |-> FALSE]

S(p) == <<at[p], key[p]>>

Max(a, b) == IF a >= b THEN a ELSE b

\* ------------------------------------------------------------ Value
\* cacheExpired counting the instant of the deadline as expired
cacheExpired_AtDeadline(s, t) ==
    IF ttl[s] <= 0 THEN FALSE ELSE expiration[s] <= t

\* func (c *Value[T]) cacheExpired() bool, at time t
cacheExpired(s, t) ==
    IF ttl[s] <= 0 THEN FALSE ELSE expiration[s] < t

\* the condition of Get and load: c.val != nil && !c.cacheExpired()
Servable(s) == val[s] # Nil /\ ~cacheExpired(s, now)

\* A Value as New leaves it: &Value[T]{loadFunc: loader}
InitValue ==
    /\ val = [s \in Slot |-> Nil]
    /\ ttl = [s \in Slot |-> 0]
    /\ expiration = [s \in Slot |-> ZeroTime]
    /\ getRefreshes = [s \in Slot |-> FALSE]
    /\ onInvalidate = [s \in Slot |-> FALSE]
    /\ mux = [s \in Slot |-> None]

InitMulti ==
    /\ values = [c \in Caches |-> {}]
    /\ lock = [c \in Caches |-> {}]
    /\ mcTtl = [c \in Caches |-> 0]

InitProcs ==
    /\ pc = [p \in Procs |-> "idle"]
    /\ at = [p \in Procs |-> "v"]
    /\ op = [p \in Procs |-> None]
    /\ key = [p \in Procs |-> 0]
    /\ res = [p \in Procs |-> Nil]
    /\ loc = [p \in Procs |-> NoLoc]

\* the buffered MultiCache starts with no atom; done and superseded are
\* history: the values of a key whose write has returned (the zero value is
\* there from the start), and those among them whose write had returned
\* before a Set began that has returned as well
InitBuf ==
    /\ atoms = << >>
    /\ done = [k \in Keys |-> {0}]
    /\ superseded = [k \in Keys |-> {}]
    /\ cleared = [k \in Keys |-> TRUE]

\* the watcher goroutine has been started and nothing has happened yet;
\* seen and wBusy are history: the content of the file when the watcher last
\* returned from _cache.Invalidate(), and whether the watcher ever reached
\* _cache.Invalidate() while a load held the lock of the Value; closes
\* counts the calls of watcher.Close()
InitFile ==
    /\ seen = 0
    /\ wBusy = FALSE
    /\ closes = 0
    /\ parentDone = FALSE
    /\ ctxDone = FALSE
    /\ wpc = "start"
    /\ events = << >>
    /\ errs = 0
    /\ fileVer = 1
    /\ log = [Event |-> 0, UnrelatedEvent |-> 0, Error |-> 0]

InitHist ==
    /\ now = 1
    /\ calls = 0
    /\ okLoads = [s \in Slot |-> 0]
    /\ failedLoads = [s \in Slot |-> 0]
    /\ hookCalls = [s \in Slot |-> 0]
    /\ invCalls = [s \in Slot |-> 0]
    /\ expReloads = [s \in Slot |-> 0]
    /\ failed = [s \in Slot |-> FALSE]
    /\ loadTime = [s \in Slot |-> 0]
    /\ setTime = [s \in Slot |-> 0]
    /\ refreshed = [s \in Slot |-> FALSE]
    /\ lastSet = [s \in Slot |-> FALSE]
    /\ created = [s \in Slot |-> 0]
    /\ touch = [s \in Slot |-> [t |-> 0, d |-> 0]]
    /\ ignored = {}
    /\ heated = {}
    /\ expired = {}
    /\ epoch = [s \in Slot |-> 0]

\* The deadline the documentation gives a held value: ttl after the load, or
\* after the SetTTL call when that came later (history, not program state).
Deadline(s) == Max(loadTime[s], setTime[s]) + ttl[s]
Deadline0(s) == loadTime[s] + ttl[s]
\* lastSet[s] is history: SetTTL has been called on the Value in s and
\* EnableGetTTLRefresh has not been called since.
\* heated is history: the key lists of the MultiCache.Preheat calls that
\* returned nil.
\* ignored is history: the keys for which MultiCache.OnInvalidate(k, fn) was
\* called before the key had its first entry.
\* touch[s] is history: the time of the last refreshTimer that moved the
\* deadline of the Value in s, and the ttl it used.
\* a held value with a ttl whose deadline no read-refresh has moved
Timed(s) == val[s] # Nil /\ ttl[s] > 0 /\ ~refreshed[s]

\* The Get of goroutine p on its Value returns x: control goes back to the
\* caller of Value.Get.  For the stand-alone Value that ends the call.  In a
\* MultiCache the caller is MultiCache.Get, which returns too and so runs its
\* deferred m.lock.RUnlock() (src/multicache.go:56-57).  A Get of the write
\* buffer returns the atom into the loader of the read cache, which goes on
\* to atom.Load() (src/buffered/buffered.go:24-29), or into Set, which goes
\* on to atom.Store(val) (src/buffered/buffered.go:78-79).
\* A Get called by Preheat returns into its loop (src/multicache.go:38-39).
Return(p, x) ==
    /\ res' = [res EXCEPT ![p] = x]
    /\ lock' = IF at[p] \in Caches
               THEN [lock EXCEPT ![at[p]] = @ \ {p}]
               ELSE lock
    /\ IF at[p] = "w"
       THEN IF op[p] = "Get"
            THEN /\ pc' = [pc EXCEPT ![p] = "atomLoad"]
                 /\ at' = [at EXCEPT ![p] = "r"]
            ELSE /\ pc' = [pc EXCEPT ![p] = "Store"]
                 /\ at' = at
       ELSE /\ pc' = [pc EXCEPT ![p] = IF op[p] = "Preheat" THEN "Preheat" ELSE "idle"]
            /\ at' = at

\* what a Get that is served the held value without a loader call observes
Served(p, s, h) ==
    [loc[p] EXCEPT !.stale = epoch[s] < loc[p].inv,
                   !.dead = <<s, val[s]>> \in loc[p].exp,
                   !.hitFailed = failed[s],
                   !.how = h,
                   !.exp = {}]

\* the call of goroutine p ended in panic("ttl <= 0")
Panicked(p) == pc[p] = "idle" /\ res[p] = Panic

\* a caller starts Value.Get
CallGet(p) ==
    /\ pc[p] = "idle"
    /\ calls < MaxCalls
    /\ calls' = calls + 1
    /\ pc' = [pc EXCEPT ![p] = "Get"]
    /\ op' = [op EXCEPT ![p] = "Get"]
    /\ at' = [at EXCEPT ![p] = "v"]
    /\ key' = [key EXCEPT ![p] = 0]
    /\ res' = [res EXCEPT ![p] = Nil]
    /\ loc' = [loc EXCEPT ![p] = [NoLoc EXCEPT !.inv = invCalls[V], !.exp = expired,
                                              !.sawFail = failed[V],
                                              !.seen = seen,
                                              !.gone = wpc = "exited",
                                              !.pan = \E q \in Procs : Panicked(q),
                                              !.sawOff = lastSet[V]]]
    /\ UNCHANGED <<valueVars, multiVars, now, histVars>>
    /\ UNCHANGED <<bufVars, fileVars>>

\* Value.Get, the section under RLock (lines 384-394)
Get(p) ==
    LET s == S(p)
        w == IF Timed(s) /\ now < Deadline(s) THEN "early"
             ELSE IF Timed(s) /\ now > Deadline(s) THEN "late" ELSE ""
    IN
    /\ pc[p] = "Get"
    /\ mux[s] = None
    /\ IF Servable(s)
       THEN /\ loc' = [loc EXCEPT ![p] = [Served(p, s, "fast") EXCEPT !.when = w]]
            /\ IF getRefreshes[s]
               THEN /\ pc' = [pc EXCEPT ![p] = "refreshTimer"]
                    /\ res' = [res EXCEPT ![p] = val[s]]
                    /\ UNCHANGED <<at, lock>>
               ELSE Return(p, val[s])
       ELSE /\ loc' = [loc EXCEPT ![p].when = w]
            /\ pc' = [pc EXCEPT ![p] = "load"]
            /\ UNCHANGED <<res, at, lock>>
    /\ UNCHANGED <<valueVars, values, mcTtl, op, key, now, calls, histVars>>
    /\ UNCHANGED <<bufVars, fileVars>>

\* Value.refreshTimer, the read of c.ttl under RLock (lines 399-404)
refreshTimer(p) ==
    LET s == S(p) IN
    /\ pc[p] = "refreshTimer"
    /\ mux[s] = None
    /\ IF ttl[s] <= 0
       THEN Return(p, res[p]) /\ UNCHANGED loc
       ELSE /\ pc' = [pc EXCEPT ![p] = "refreshLock"]
            /\ loc' = [loc EXCEPT ![p].lttl = ttl[s]]
            /\ UNCHANGED <<res, at, lock>>
    /\ UNCHANGED <<valueVars, values, mcTtl, op, key, now, calls, histVars>>
    /\ UNCHANGED <<bufVars, fileVars>>

\* refreshTimer returning without moving the deadline
refreshLock_NoMove(p) ==
    LET s == S(p) IN
    /\ pc[p] = "refreshLock"
    /\ mux[s] = None
    /\ expiration' = expiration
    /\ failed' = [failed EXCEPT ![s] = FALSE]
    /\ touch' = [touch EXCEPT ![s] = [t |-> now, d |-> loc[p].lttl]]
    /\ Return(p, res[p])
    /\ UNCHANGED <<val, ttl, getRefreshes, onInvalidate, mux, kind, values, mcTtl,
                   op, key, loc, now, calls, okLoads, failedLoads,
                   hookCalls, invCalls, expired, expReloads, epoch, loadTime, setTime,
                   refreshed, lastSet, created, ignored, heated>>
    /\ UNCHANGED <<bufVars, fileVars>>

\* Value.refreshTimer, the update under Lock (lines 405-407)
refreshLock(p) ==
    LET s == S(p) IN
    /\ pc[p] = "refreshLock"
    /\ mux[s] = None
    /\ expiration' = [expiration EXCEPT ![s] = now + loc[p].lttl]
    /\ failed' = [failed EXCEPT ![s] = FALSE]
    /\ touch' = [touch EXCEPT ![s] = [t |-> now, d |-> loc[p].lttl]]
    /\ Return(p, res[p])
    /\ UNCHANGED <<val, ttl, getRefreshes, onInvalidate, mux, kind, values, mcTtl,
                   op, key, loc, now, calls, okLoads, failedLoads,
                   hookCalls, invCalls, expired, expReloads, epoch, loadTime, setTime,
                   refreshed, lastSet, created, ignored, heated>>
    /\ UNCHANGED <<bufVars, fileVars>>

\* loadLock without the second check: every Get that missed calls the loader
loadLock_NoSecondCheck(p) ==
    LET s == S(p) IN
    /\ pc[p] = "load"
    /\ mux[s] = None
    /\ mux' = [mux EXCEPT ![s] = p]
    /\ pc' = [pc EXCEPT ![p] = "loading"]
    /\ UNCHANGED <<res, at, lock, loc>>
    /\ UNCHANGED <<val, ttl, expiration, getRefreshes, onInvalidate, kind, values,
                   mcTtl, op, key, now, calls, histVars>>
    /\ UNCHANGED <<bufVars, fileVars>>

\* Value.load calling the loader without holding c.mux
loadLock_NoLock(p) ==
    LET s == S(p) IN
    /\ pc[p] = "load"
    /\ mux[s] = None
    /\ IF Servable(s)
       THEN /\ loc' = [loc EXCEPT ![p] = Served(p, s, "slow")]
            /\ Return(p, val[s])
            /\ UNCHANGED mux
       ELSE /\ mux' = mux
            /\ pc' = [pc EXCEPT ![p] = "loading"]
            /\ UNCHANGED <<res, at, lock, loc>>
    /\ UNCHANGED <<val, ttl, expiration, getRefreshes, onInvalidate, kind, values,
                   mcTtl, op, key, now, calls, histVars>>
    /\ UNCHANGED <<bufVars, fileVars>>

\* Value.load, Lock and the second check (lines 411-418)
loadLock(p) ==
    LET s == S(p) IN
    /\ pc[p] = "load"
    /\ mux[s] = None
    /\ IF Servable(s)
       THEN /\ loc' = [loc EXCEPT ![p] = Served(p, s, "slow")]
            /\ Return(p, val[s])
            /\ UNCHANGED mux
       ELSE /\ mux' = [mux EXCEPT ![s] = p]
            /\ pc' = [pc EXCEPT ![p] = "loading"]
            /\ UNCHANGED <<res, at, lock, loc>>
    /\ UNCHANGED <<val, ttl, expiration, getRefreshes, onInvalidate, kind, values,
                   mcTtl, op, key, now, calls, histVars>>
    /\ UNCHANGED <<bufVars, fileVars>>

\* loadFail storing what the loader returned before looking at the error
loadFail_Stores(p, s, e) ==
    /\ val' = [val EXCEPT ![s] = okLoads[s] + failedLoads[s] + 1]
    /\ epoch' = [epoch EXCEPT ![s] = invCalls[s]]
    /\ mux' = [mux EXCEPT ![s] = None]
    /\ failedLoads' = [failedLoads EXCEPT ![s] = @ + 1]
    /\ failed' = [failed EXCEPT ![s] = TRUE]
    /\ loc' = [loc EXCEPT ![p].called = @ + 1, ![p].how = "failed", ![p].exp = {}]
    /\ Return(p, e)
    /\ UNCHANGED <<ttl, expiration, okLoads, expReloads, loadTime>>

\* Value.load, the loader returned the error e (lines 421-424); Unlock is
\* deferred
loadFail(p, s, e) ==
    /\ mux' = [mux EXCEPT ![s] = None]
    /\ failedLoads' = [failedLoads EXCEPT ![s] = @ + 1]
    /\ failed' = [failed EXCEPT ![s] = TRUE]
    /\ loc' = [loc EXCEPT ![p].called = @ + 1, ![p].how = "failed", ![p].exp = {}]
    /\ Return(p, e)
    /\ UNCHANGED <<val, ttl, expiration, okLoads, expReloads, epoch, loadTime>>

\* loadStore without the new deadline: c.expiration is left as it was
loadStore_NoDeadline(p, s, v, d) ==
    /\ val' = [val EXCEPT ![s] = v]
    /\ ttl' = [ttl EXCEPT ![s] = d]
    /\ mux' = [mux EXCEPT ![s] = None]
    /\ okLoads' = [okLoads EXCEPT ![s] = @ + 1]
    /\ expReloads' = [expReloads EXCEPT ![s] = IF val[s] # Nil THEN @ + 1 ELSE @]
    /\ epoch' = [epoch EXCEPT ![s] = invCalls[s]]
    /\ failed' = [failed EXCEPT ![s] = FALSE]
    /\ loadTime' = [loadTime EXCEPT ![s] = now]
    /\ loc' = [loc EXCEPT ![p].called = @ + 1, ![p].how = "loaded", ![p].exp = {},
                          ![p].got = IF kind = "NewWithTTL" THEN <<ttl[s], d>>
                                     ELSE <<0, 0>>]
    /\ Return(p, v)
    /\ UNCHANGED <<failedLoads, expiration>>

\* loadStore that keeps a ttl SetTTL had set instead of the loader's
loadStore_KeepsTtl(p, s, v, d) ==
    /\ val' = [val EXCEPT ![s] = v]
    /\ ttl' = [ttl EXCEPT ![s] = IF ttl[s] > 0 THEN ttl[s] ELSE d]
    /\ expiration' = IF ttl'[s] > 0 THEN [expiration EXCEPT ![s] = now + ttl'[s]]
                                      ELSE expiration
    /\ mux' = [mux EXCEPT ![s] = None]
    /\ okLoads' = [okLoads EXCEPT ![s] = @ + 1]
    /\ expReloads' = [expReloads EXCEPT ![s] = IF val[s] # Nil THEN @ + 1 ELSE @]
    /\ epoch' = [epoch EXCEPT ![s] = invCalls[s]]
    /\ failed' = [failed EXCEPT ![s] = FALSE]
    /\ loadTime' = [loadTime EXCEPT ![s] = now]
    /\ loc' = [loc EXCEPT ![p].called = @ + 1, ![p].how = "loaded", ![p].exp = {},
                          ![p].got = IF kind = "NewWithTTL" THEN <<ttl[s], d>>
                                     ELSE <<0, 0>>]
    /\ Return(p, v)
    /\ UNCHANGED failedLoads

\* Value.load, the loader returned v; d is the ttl the loader left in c.ttl
\* (lines 421-429); Unlock is deferred
loadStore(p, s, v, d) ==
    /\ val' = [val EXCEPT ![s] = v]
    /\ ttl' = [ttl EXCEPT ![s] = d]
    /\ expiration' = IF d > 0 THEN [expiration EXCEPT ![s] = now + d] ELSE expiration
    /\ mux' = [mux EXCEPT ![s] = None]
    /\ okLoads' = [okLoads EXCEPT ![s] = @ + 1]
    /\ expReloads' = [expReloads EXCEPT ![s] = IF val[s] # Nil THEN @ + 1 ELSE @]
    /\ epoch' = [epoch EXCEPT ![s] = invCalls[s]]
    /\ failed' = [failed EXCEPT ![s] = FALSE]
    /\ loadTime' = [loadTime EXCEPT ![s] = now]
    /\ loc' = [loc EXCEPT ![p].called = @ + 1, ![p].how = "loaded", ![p].exp = {},
                          ![p].got = IF kind = "NewWithTTL" THEN <<ttl[s], d>>
                                     ELSE <<0, 0>>]
    /\ Return(p, v)
    /\ UNCHANGED failedLoads

\* the loader calls made for the Value in s
LoaderCalls(s) == okLoads[s] + failedLoads[s]

\* the value a loader call produces: every load yields a new one
NewVal(s) == okLoads[s] + failedLoads[s] + 1

\* Value.load with a loadFunc of NewWithTTL that takes any duration
loading_AnyTtl(p) ==
    LET s == S(p) IN
    /\ pc[p] = "loading"
    /\ at[p] = "v"
    /\ \/ loadFail(p, s, Err)
       \/ /\ kind \in {"New", "NewEager"}
          /\ loadStore(p, s, NewVal(s), ttl[s])
       \/ /\ kind = "NewWithTTL"
          /\ \E d \in {0} \cup TTLs :
                loadStore(p, s, NewVal(s), d)
    /\ UNCHANGED <<getRefreshes, onInvalidate, kind, values, mcTtl, op, key, now,
                   calls, hookCalls, invCalls, expired, setTime, refreshed, lastSet, created, touch, ignored, heated>>
    /\ UNCHANGED <<bufVars, fileVars>>

\* a loadFunc of NewWithTTL that sets c.ttl at the first load only
loading_TtlOnce(p) ==
    LET s == S(p) IN
    /\ pc[p] = "loading"
    /\ at[p] = "v"
    /\ \/ loadFail(p, s, Err)
       \/ /\ kind \in {"New", "NewEager"}
          /\ loadStore(p, s, NewVal(s), ttl[s])
       \/ /\ kind = "NewWithTTL"
          /\ \E d \in {0} \cup TTLs :
                IF d <= 0 THEN loadFail(p, s, ErrTtl) ELSE loadStore(p, s, NewVal(s),
                                    IF okLoads[s] = 0 THEN d ELSE ttl[s])
    /\ UNCHANGED <<getRefreshes, onInvalidate, kind, values, mcTtl, op, key, now,
                   calls, hookCalls, invCalls, expired, setTime, refreshed, lastSet, created, touch, ignored, heated>>
    /\ UNCHANGED <<bufVars, fileVars>>

\* Value.load with the loader of New (LoaderFunc) or of NewWithTTL
\* (lines 504-516): the loader fails, or returns a value (and a ttl)
loading(p) ==
    LET s == S(p) IN
    /\ pc[p] = "loading"
    /\ at[p] = "v"
    /\ \/ loadFail(p, s, Err)
       \/ /\ kind \in {"New", "NewEager"}
          /\ loadStore(p, s, NewVal(s), ttl[s])
       \/ /\ kind = "NewWithTTL"
          /\ \E d \in {0} \cup TTLs :
                IF d <= 0 THEN loadFail(p, s, ErrTtl) ELSE loadStore(p, s, NewVal(s), d)
    /\ UNCHANGED <<getRefreshes, onInvalidate, kind, values, mcTtl, op, key, now,
                   calls, hookCalls, invCalls, expired, setTime, refreshed, lastSet, created, touch, ignored, heated>>
    /\ UNCHANGED <<bufVars, fileVars>>

\* a caller starts Value.Invalidate
CallInvalidate(p) ==
    /\ pc[p] = "idle"
    /\ calls < MaxCalls
    /\ calls' = calls + 1
    /\ pc' = [pc EXCEPT ![p] = "Invalidate"]
    /\ op' = [op EXCEPT ![p] = "Invalidate"]
    /\ at' = [at EXCEPT ![p] = "v"]
    /\ key' = [key EXCEPT ![p] = 0]
    /\ res' = [res EXCEPT ![p] = Nil]
    /\ loc' = [loc EXCEPT ![p] = [NoLoc EXCEPT !.busy = mux[V] # None]]
    /\ UNCHANGED <<valueVars, multiVars, now, histVars>>
    /\ UNCHANGED <<bufVars, fileVars>>

\* invalidate resetting the deadline only: c.val is kept
invalidate_KeepsVal(s) ==
    /\ mux[s] = None
    /\ expiration' = [expiration EXCEPT ![s] = ZeroTime]
    /\ val' = val
    /\ hookCalls' = [hookCalls EXCEPT ![s] = IF onInvalidate[s] THEN @ + 1 ELSE @]
    /\ invCalls' = [invCalls EXCEPT ![s] = @ + 1]

\* invalidate calling the hook only when a value was discarded
invalidate_HookIfHeld(s) ==
    /\ mux[s] = None
    /\ expiration' = [expiration EXCEPT ![s] = ZeroTime]
    /\ val' = [val EXCEPT ![s] = Nil]
    /\ hookCalls' = [hookCalls EXCEPT ![s] =
                        IF onInvalidate[s] /\ val[s] # Nil THEN @ + 1 ELSE @]
    /\ invCalls' = [invCalls EXCEPT ![s] = @ + 1]

\* the body of Value.Invalidate on slot s (lines 434-441)
invalidate(s) ==
    /\ mux[s] = None
    /\ expiration' = [expiration EXCEPT ![s] = ZeroTime]
    /\ val' = [val EXCEPT ![s] = Nil]
    /\ hookCalls' = [hookCalls EXCEPT ![s] = IF onInvalidate[s] THEN @ + 1 ELSE @]
    /\ invCalls' = [invCalls EXCEPT ![s] = @ + 1]

\* Value.Invalidate
Invalidate(p) ==
    /\ pc[p] = "Invalidate"
    /\ invalidate(S(p))
    /\ Return(p, Nil)
    /\ UNCHANGED <<ttl, getRefreshes, onInvalidate, mux, kind, values, mcTtl, op, key,
                   loc, now, calls, okLoads, failedLoads, expired,
                   expReloads, epoch, failed, loadTime, setTime, refreshed, lastSet, created, touch, ignored, heated>>
    /\ UNCHANGED <<bufVars, fileVars>>

\* A call that takes the Lock, assigns and returns is one step of whatever
\* goroutine makes it: the goroutines of Procs are left where they are.
Call ==
    /\ calls < MaxCalls
    /\ calls' = calls + 1
    /\ UNCHANGED <<procVars, multiVars, now>>
    /\ UNCHANGED <<bufVars, fileVars>>

\* Value.OnInvalidate (lines 448-452)
OnInvalidate ==
    /\ Call
    /\ mux[V] = None
    /\ onInvalidate' = [onInvalidate EXCEPT ![V] = TRUE]
    /\ UNCHANGED <<val, ttl, expiration, getRefreshes, mux, kind, histVars>>

\* SetTTL leaving read-refresh as it was
SetTTL_KeepsRefresh ==
    /\ Call
    /\ mux[V] = None
    /\ \E d \in TTLs :
        /\ ttl' = [ttl EXCEPT ![V] = d]
        /\ expiration' = [expiration EXCEPT ![V] = now + d]
    /\ getRefreshes' = getRefreshes
    /\ failed' = [failed EXCEPT ![V] = FALSE]
    /\ setTime' = [setTime EXCEPT ![V] = now]
    /\ lastSet' = [lastSet EXCEPT ![V] = TRUE]
    /\ UNCHANGED <<val, onInvalidate, mux, kind, okLoads, failedLoads,
                   hookCalls, invCalls, expired, expReloads, epoch, loadTime, refreshed,
                   created, touch, ignored, heated>>

\* Value.SetTTL(d), d > 0 (lines 463-472)
SetTTL ==
    /\ Call
    /\ mux[V] = None
    /\ \E d \in TTLs :
        /\ ttl' = [ttl EXCEPT ![V] = d]
        /\ expiration' = [expiration EXCEPT ![V] = now + d]
    /\ getRefreshes' = [getRefreshes EXCEPT ![V] = FALSE]
    /\ failed' = [failed EXCEPT ![V] = FALSE]
    /\ setTime' = [setTime EXCEPT ![V] = now]
    /\ lastSet' = [lastSet EXCEPT ![V] = TRUE]
    /\ UNCHANGED <<val, onInvalidate, mux, kind, okLoads, failedLoads,
                   hookCalls, invCalls, expired, expReloads, epoch, loadTime, refreshed,
                   created, touch, ignored, heated>>

\* RemoveTTL clearing the deadline only: c.ttl is kept
RemoveTTL_KeepsTtl ==
    /\ Call
    /\ mux[V] = None
    /\ ttl' = ttl
    /\ expiration' = [expiration EXCEPT ![V] = ZeroTime]
    /\ failed' = [failed EXCEPT ![V] = FALSE]
    /\ UNCHANGED <<val, getRefreshes, onInvalidate, mux, kind, okLoads, failedLoads, hookCalls, invCalls, expired, expReloads, epoch,
                   loadTime, setTime, refreshed, lastSet, created, touch, ignored, heated>>

\* Value.RemoveTTL (lines 476-481)
RemoveTTL ==
    /\ Call
    /\ mux[V] = None
    /\ ttl' = [ttl EXCEPT ![V] = 0]
    /\ expiration' = [expiration EXCEPT ![V] = ZeroTime]
    /\ failed' = [failed EXCEPT ![V] = FALSE]
    /\ UNCHANGED <<val, getRefreshes, onInvalidate, mux, kind, okLoads, failedLoads, hookCalls, invCalls, expired, expReloads, epoch,
                   loadTime, setTime, refreshed, lastSet, created, touch, ignored, heated>>

\* Value.EnableGetTTLRefresh (lines 487-491)
EnableGetTTLRefresh ==
    /\ calls < MaxCalls
    /\ calls' = calls + 1
    /\ mux[V] = None
    /\ getRefreshes' = [getRefreshes EXCEPT ![V] = TRUE]
    /\ refreshed' = [refreshed EXCEPT ![V] = TRUE]
    /\ lastSet' = [lastSet EXCEPT ![V] = FALSE]
    /\ loc' = [q \in Procs |-> [loc[q] EXCEPT !.sawOff = FALSE]]
    /\ UNCHANGED <<pc, at, op, key, res, multiVars, now, bufVars, fileVars>>
    /\ UNCHANGED <<val, ttl, expiration, onInvalidate, mux, kind, okLoads,
                   failedLoads, hookCalls, invCalls, expired,
                   expReloads, epoch, failed, loadTime, setTime, created, touch, ignored, heated>>

\* time passes, up to the time m: a held value whose deadline is now behind
\* the clock has expired
Elapse(m) ==
    /\ now < m
    /\ now' = now + 1
    /\ expired' = expired \cup
          {<<s, val[s]>> : s \in {x \in Slot : val[x] # Nil /\ cacheExpired(x, now + 1)}}
    /\ UNCHANGED <<valueVars, multiVars, procVars, calls, okLoads, failedLoads, hookCalls, invCalls, expReloads, epoch, failed,
                   loadTime, setTime, refreshed, lastSet, created, touch, ignored, heated>>
    /\ UNCHANGED <<bufVars, fileVars>>

Tick == Elapse(MaxTime)

TickR == Elapse(MaxRefreshTime)

\* -------------------------------------------------------- MultiCache
\* The sections of MultiCache that run under m.lock.Lock() do not block
\* inside: each is one step, enabled when no goroutine holds the RLock.

\* the keys named by a Preheat that has returned nil
Heated == UNION {{l[n] : n \in 1..Len(l)} : l \in heated}

\* a caller starts MultiCache.Get(k) on the cache c
MCallGet(p, c, k) ==
    /\ pc[p] = "idle"
    /\ calls < MaxCalls
    /\ calls' = calls + 1
    /\ pc' = [pc EXCEPT ![p] = "mGet"]
    /\ op' = [op EXCEPT ![p] = "Get"]
    /\ at' = [at EXCEPT ![p] = c]
    /\ key' = [key EXCEPT ![p] = k]
    /\ res' = [res EXCEPT ![p] = Nil]
    /\ loc' = [loc EXCEPT ![p] = [NoLoc EXCEPT !.inv = invCalls[<<c, k>>],
                                              !.exp = expired,
                                              !.sawFail = failed[<<c, k>>],
                                              !.hot = k \in Heated]]
    /\ UNCHANGED <<valueVars, multiVars, now, histVars>>
    /\ UNCHANGED <<bufVars, fileVars>>

\* the goroutines that have called m.lock.Lock() of the cache c (in
\* populate, line 70, or Invalidate, line 91) and wait for the readers to
\* leave: sync.RWMutex makes every later RLock wait behind them
Pending(c) ==
    {q \in Procs : pc[q] \in {"populateLock", "mInvalidateLock"} /\ at[q] = c}

\* m.lock.Lock() is called while the lock is not had yet: the writer is
\* announced.  (Lock() on a free lock is populate or mInvalidate at once.)
mLock(p) ==
    /\ pc[p] \in {"populate", "mInvalidate"}
    /\ pc' = [pc EXCEPT ![p] = IF pc[p] = "populate" THEN "populateLock"
                                                     ELSE "mInvalidateLock"]
    /\ UNCHANGED <<valueVars, multiVars, at, op, key, res, loc, now, calls, histVars>>
    /\ UNCHANGED <<bufVars, fileVars>>

\* MultiCache.Get that goes to populate without m.lock.RUnlock()
mGet_KeepsRLock(p) ==
    /\ pc[p] = "mGet"
    /\ Pending(at[p]) = {}
    /\ IF key[p] \in values[at[p]]
       THEN /\ lock' = [lock EXCEPT ![at[p]] = @ \cup {p}]
            /\ pc' = [pc EXCEPT ![p] = "Get"]
       ELSE /\ pc' = [pc EXCEPT ![p] = "populate"]
            /\ lock' = [lock EXCEPT ![at[p]] = @ \cup {p}]
    /\ UNCHANGED <<valueVars, values, mcTtl, at, op, key, res, loc, now, calls,
                   histVars>>
    /\ UNCHANGED <<bufVars, fileVars>>

\* MultiCache.Get, RLock and the lookup (lines 49-56): on a miss the RLock
\* is released and populate comes next, on a hit it is kept for c.Get().
\* RLock waits while a writer is pending.
mGet(p) ==
    /\ pc[p] = "mGet"
    /\ Pending(at[p]) = {}
    /\ IF key[p] \in values[at[p]]
       THEN /\ lock' = [lock EXCEPT ![at[p]] = @ \cup {p}]
            /\ pc' = [pc EXCEPT ![p] = "Get"]
       ELSE /\ pc' = [pc EXCEPT ![p] = "populate"]
            /\ UNCHANGED lock
    /\ UNCHANGED <<valueVars, values, mcTtl, at, op, key, res, loc, now, calls,
                   histVars>>
    /\ UNCHANGED <<bufVars, fileVars>>

\* the Value populate stores: New(...) and, with a policy, SetTTL(m.ttl)
newValue(s, d) ==
    /\ val' = [val EXCEPT ![s] = Nil]
    /\ ttl' = [ttl EXCEPT ![s] = d]
    /\ expiration' = [expiration EXCEPT ![s] = IF d > 0 THEN now + d ELSE ZeroTime]
    /\ getRefreshes' = [getRefreshes EXCEPT ![s] = FALSE]
    /\ onInvalidate' = [onInvalidate EXCEPT ![s] = FALSE]
    /\ setTime' = [setTime EXCEPT ![s] = IF d > 0 THEN now ELSE @]
    /\ created' = [created EXCEPT ![s] = @ + 1]

\* populate without the second lookup: the entry is always replaced
populate_NoRecheck(p) ==
    /\ pc[p] \in {"populate", "populateLock"}
    /\ lock[at[p]] = {}
    /\ newValue(S(p), mcTtl[at[p]])
    /\ values' = [values EXCEPT ![at[p]] = @ \cup {key[p]}]
    /\ UNCHANGED loc
    /\ pc' = [pc EXCEPT ![p] = "mGet"]
    /\ UNCHANGED <<mux, kind, lock, mcTtl, at, op, key, res, now, calls, okLoads,
                   failedLoads, hookCalls, invCalls, expired, expReloads, epoch,
                   failed, loadTime, refreshed, lastSet, touch, ignored, heated>>
    /\ UNCHANGED <<bufVars, fileVars>>

\* populate that returns without storing the Value it made
populate_NoStore(p) ==
    /\ pc[p] \in {"populate", "populateLock"}
    /\ lock[at[p]] = {}
    /\ IF key[p] \in values[at[p]]
       THEN /\ loc' = [loc EXCEPT ![p].found = TRUE]
            /\ UNCHANGED <<val, ttl, expiration, getRefreshes, onInvalidate,
                           setTime, created, values>>
       ELSE /\ newValue(S(p), mcTtl[at[p]])
            /\ values' = values
            /\ UNCHANGED loc
    /\ pc' = [pc EXCEPT ![p] = "mGet"]
    /\ UNCHANGED <<mux, kind, lock, mcTtl, at, op, key, res, now, calls, okLoads,
                   failedLoads, hookCalls, invCalls, expired, expReloads, epoch,
                   failed, loadTime, refreshed, lastSet, touch, ignored, heated>>
    /\ UNCHANGED <<bufVars, fileVars>>

\* MultiCache.populate (lines 69-87), then the retry m.Get(key) (line 54)
populate(p) ==
    /\ pc[p] \in {"populate", "populateLock"}
    /\ lock[at[p]] = {}
    /\ IF key[p] \in values[at[p]]
       THEN /\ loc' = [loc EXCEPT ![p].found = TRUE]
            /\ UNCHANGED <<val, ttl, expiration, getRefreshes, onInvalidate,
                           setTime, created, values>>
       ELSE /\ newValue(S(p), mcTtl[at[p]])
            /\ values' = [values EXCEPT ![at[p]] = @ \cup {key[p]}]
            /\ UNCHANGED loc
    /\ pc' = [pc EXCEPT ![p] = "mGet"]
    /\ UNCHANGED <<mux, kind, lock, mcTtl, at, op, key, res, now, calls, okLoads,
                   failedLoads, hookCalls, invCalls, expired, expReloads, epoch,
                   failed, loadTime, refreshed, lastSet, touch, ignored, heated>>
    /\ UNCHANGED <<bufVars, fileVars>>

\* Value.load with the loader populate wraps around m.loader(key)
\* (lines 78-81): the MultiLoaderFunc fails or returns a value
mloading(p) ==
    LET s == S(p) IN
    /\ pc[p] = "loading"
    /\ at[p] = "r"
    /\ \/ loadFail(p, s, Err)
       \/ loadStore(p, s, NewVal(s), ttl[s])
    /\ UNCHANGED <<getRefreshes, onInvalidate, kind, values, mcTtl, op, key, now,
                   calls, hookCalls, invCalls, expired, setTime, refreshed, lastSet, created, touch, ignored, heated>>
    /\ UNCHANGED <<bufVars, fileVars>>

\* a caller starts MultiCache.Invalidate(k) on the cache c
MCallInvalidate(p, c, k) ==
    /\ pc[p] = "idle"
    /\ calls < MaxCalls
    /\ calls' = calls + 1
    /\ pc' = [pc EXCEPT ![p] = "mInvalidate"]
    /\ op' = [op EXCEPT ![p] = "Invalidate"]
    /\ at' = [at EXCEPT ![p] = c]
    /\ key' = [key EXCEPT ![p] = k]
    /\ res' = [res EXCEPT ![p] = Nil]
    /\ loc' = [loc EXCEPT ![p] = NoLoc]
    /\ UNCHANGED <<valueVars, multiVars, now, histVars>>
    /\ UNCHANGED <<bufVars, fileVars>>

\* another goroutine is inside Unset(k) of the buffered MultiCache
UnsetRunning(p, k) ==
    \E q \in Procs \ {p} : op[q] = "Unset" /\ pc[q] # "idle" /\ key[q] = k

\* a goroutine other than p is inside Set(k, v) of the buffered MultiCache
SetRunning(p, k) ==
    \E q \in Procs \ {p} : op[q] = "Set" /\ pc[q] # "idle" /\ key[q] = k

\* MultiCache.Invalidate returns: to its caller, or into Unset after
\* writeBuffer.Invalidate (src/buffered/buffered.go:86-87).  When Set or
\* Unset returns the history records its write as done, and an Unset that
\* returns and had no Set of its key running beside it has cleared the key.
AfterInvalidate(p) ==
    LET k == key[p] IN
    IF op[p] = "Unset" /\ at[p] = "w"
    THEN /\ pc' = [pc EXCEPT ![p] = "mInvalidate"]
         /\ at' = [at EXCEPT ![p] = "r"]
         /\ UNCHANGED <<done, superseded, cleared>>
    ELSE /\ pc' = [pc EXCEPT ![p] = "idle"]
         /\ at' = at
         /\ done' = IF op[p] = "Set"
                    THEN [done EXCEPT ![k] = @ \cup {loc[p].arg}]
                    ELSE IF op[p] = "Unset" /\ ~UnsetRunning(p, k)
                    THEN [done EXCEPT ![k] = @ \cup {0}]
                    ELSE done
         /\ superseded' = IF op[p] = "Set"
                          THEN [superseded EXCEPT ![k] = @ \cup loc[p].old]
                          ELSE superseded
         /\ cleared' = IF op[p] = "Unset" /\ ~loc[p].dirty
                       THEN [cleared EXCEPT ![k] = TRUE]
                       ELSE cleared

\* MultiCache.Invalidate that empties the whole map
mInvalidate_All(p) ==
    LET s == S(p) IN
    /\ pc[p] \in {"mInvalidate", "mInvalidateLock"}
    /\ lock[at[p]] = {}
    /\ IF key[p] \in values[at[p]]
       THEN /\ invalidate(s)
            /\ values' = [values EXCEPT ![at[p]] = {}]
            /\ ttl' = [ttl EXCEPT ![s] = 0]
            /\ getRefreshes' = [getRefreshes EXCEPT ![s] = FALSE]
            /\ onInvalidate' = [onInvalidate EXCEPT ![s] = FALSE]
       ELSE UNCHANGED <<val, expiration, hookCalls, invCalls, values, ttl,
                        getRefreshes, onInvalidate>>
    /\ AfterInvalidate(p)
    /\ UNCHANGED <<mux, kind, lock, mcTtl, op,
                   key, res, loc, now, calls, okLoads, failedLoads, expired,
                   expReloads, epoch, failed, loadTime, setTime, refreshed, lastSet, created, touch, ignored, heated>>
    /\ UNCHANGED <<atoms, fileVars>>

\* MultiCache.Invalidate that does not wait for the Gets holding the RLock
mInvalidate_NoWait(p) ==
    LET s == S(p) IN
    /\ pc[p] \in {"mInvalidate", "mInvalidateLock"}
    /\ IF key[p] \in values[at[p]]
       THEN /\ invalidate(s)
            /\ values' = [values EXCEPT ![at[p]] = @ \ {key[p]}]
            /\ ttl' = [ttl EXCEPT ![s] = 0]
            /\ getRefreshes' = [getRefreshes EXCEPT ![s] = FALSE]
            /\ onInvalidate' = [onInvalidate EXCEPT ![s] = FALSE]
       ELSE UNCHANGED <<val, expiration, hookCalls, invCalls, values, ttl,
                        getRefreshes, onInvalidate>>
    /\ AfterInvalidate(p)
    /\ UNCHANGED <<mux, kind, lock, mcTtl, op,
                   key, res, loc, now, calls, okLoads, failedLoads, expired,
                   expReloads, epoch, failed, loadTime, setTime, refreshed, lastSet, created, touch, ignored, heated>>
    /\ UNCHANGED <<atoms, fileVars>>

\* MultiCache.Invalidate that leaves fn to the next Value of the key
mInvalidate_KeepsHook(p) ==
    LET s == S(p) IN
    /\ pc[p] \in {"mInvalidate", "mInvalidateLock"}
    /\ lock[at[p]] = {}
    /\ IF key[p] \in values[at[p]]
       THEN /\ invalidate(s)
            /\ values' = [values EXCEPT ![at[p]] = @ \ {key[p]}]
            /\ ttl' = [ttl EXCEPT ![s] = 0]
            /\ getRefreshes' = [getRefreshes EXCEPT ![s] = FALSE]
            /\ onInvalidate' = onInvalidate
       ELSE UNCHANGED <<val, expiration, hookCalls, invCalls, values, ttl,
                        getRefreshes, onInvalidate>>
    /\ AfterInvalidate(p)
    /\ UNCHANGED <<mux, kind, lock, mcTtl, op,
                   key, res, loc, now, calls, okLoads, failedLoads, expired,
                   expReloads, epoch, failed, loadTime, setTime, refreshed, lastSet, created, touch, ignored, heated>>
    /\ UNCHANGED <<atoms, fileVars>>

\* MultiCache.Invalidate (lines 90-99): c.Invalidate() and delete
mInvalidate(p) ==
    LET s == S(p) IN
    /\ pc[p] \in {"mInvalidate", "mInvalidateLock"}
    /\ lock[at[p]] = {}
    /\ IF key[p] \in values[at[p]]
       THEN /\ invalidate(s)
            /\ values' = [values EXCEPT ![at[p]] = @ \ {key[p]}]
            /\ ttl' = [ttl EXCEPT ![s] = 0]
            /\ getRefreshes' = [getRefreshes EXCEPT ![s] = FALSE]
            /\ onInvalidate' = [onInvalidate EXCEPT ![s] = FALSE]
       ELSE UNCHANGED <<val, expiration, hookCalls, invCalls, values, ttl,
                        getRefreshes, onInvalidate>>
    /\ AfterInvalidate(p)
    /\ UNCHANGED <<mux, kind, lock, mcTtl, op,
                   key, res, loc, now, calls, okLoads, failedLoads, expired,
                   expReloads, epoch, failed, loadTime, setTime, refreshed, lastSet, created, touch, ignored, heated>>
    /\ UNCHANGED <<atoms, fileVars>>

\* MultiCache.OnInvalidate that keeps fn for a key without an entry
MOnInvalidate_Remembers ==
    /\ calls < MaxCalls
    /\ calls' = calls + 1
    /\ UNCHANGED <<procVars, multiVars, now>>
    /\ lock["r"] = {}
    /\ \E k \in Keys :
          IF k \in values["r"]
          THEN /\ onInvalidate' = [onInvalidate EXCEPT ![<<"r", k>>] = TRUE]
               /\ UNCHANGED ignored
          ELSE /\ ignored' = IF created[<<"r", k>>] = 0 THEN ignored \cup {k}
                                                          ELSE ignored
               /\ onInvalidate' = [onInvalidate EXCEPT ![<<"r", k>>] = TRUE]
    /\ UNCHANGED <<val, ttl, expiration, getRefreshes, mux, kind>>
    /\ UNCHANGED <<okLoads, failedLoads, hookCalls, invCalls, expired, expReloads,
                   epoch, failed, loadTime, setTime, refreshed, created, lastSet,
                   touch, heated>>
    /\ UNCHANGED <<bufVars, fileVars>>

\* MultiCache.OnInvalidate(k, fn) (lines 103-111); the history records
\* the calls made before the first entry of their key
MOnInvalidate ==
    /\ calls < MaxCalls
    /\ calls' = calls + 1
    /\ UNCHANGED <<procVars, multiVars, now>>
    /\ lock["r"] = {}
    /\ \E k \in Keys :
          IF k \in values["r"]
          THEN /\ onInvalidate' = [onInvalidate EXCEPT ![<<"r", k>>] = TRUE]
               /\ UNCHANGED ignored
          ELSE /\ ignored' = IF created[<<"r", k>>] = 0 THEN ignored \cup {k}
                                                          ELSE ignored
               /\ UNCHANGED onInvalidate
    /\ UNCHANGED <<val, ttl, expiration, getRefreshes, mux, kind>>
    /\ UNCHANGED <<okLoads, failedLoads, hookCalls, invCalls, expired, expReloads,
                   epoch, failed, loadTime, setTime, refreshed, created, lastSet,
                   touch, heated>>
    /\ UNCHANGED <<bufVars, fileVars>>

\* the key lists callers give to Preheat: one key, one key twice, and two
\* keys with the first repeated
KeyLists == {<<1>>, <<2, 2>>, <<1, 2, 1>>}

\* a caller starts MultiCache.Preheat(ks)
PCallPreheat(p, ks) ==
    /\ pc[p] = "idle"
    /\ calls < MaxCalls
    /\ calls' = calls + 1
    /\ pc' = [pc EXCEPT ![p] = "Preheat"]
    /\ op' = [op EXCEPT ![p] = "Preheat"]
    /\ at' = [at EXCEPT ![p] = "r"]
    /\ key' = [key EXCEPT ![p] = ks[1]]
    /\ res' = [res EXCEPT ![p] = Nil]
    /\ loc' = [loc EXCEPT ![p] = [NoLoc EXCEPT !.keys = ks, !.i = 1]]
    /\ UNCHANGED <<valueVars, multiVars, now, histVars>>
    /\ UNCHANGED <<bufVars, fileVars>>

\* Preheat that returns nil after the Get of the first key
Preheat_FirstOnly(p) ==
    LET ks == loc[p].keys
        i == loc[p].i
    IN
    /\ pc[p] = "Preheat"
    /\ IF res[p] \in Errs
       THEN /\ pc' = [pc EXCEPT ![p] = "idle"]
            /\ res' = [res EXCEPT ![p] = Wrap(key[p], res[p])]
            /\ UNCHANGED <<key, loc, heated>>
       ELSE IF i > 1
       THEN /\ pc' = [pc EXCEPT ![p] = "idle"]
            /\ res' = [res EXCEPT ![p] = Nil]
            /\ heated' = heated \cup {ks}
            /\ UNCHANGED <<key, loc>>
       ELSE /\ pc' = [pc EXCEPT ![p] = "mGet"]
            /\ key' = [key EXCEPT ![p] = ks[i]]
            /\ res' = [res EXCEPT ![p] = Nil]
            /\ loc' = [loc EXCEPT ![p] = [NoLoc EXCEPT !.keys = ks, !.i = i + 1,
                                                      !.inv = invCalls[<<"r", ks[i]>>],
                                                      !.exp = expired,
                                                      !.sawFail = failed[<<"r", ks[i]>>]]]
            /\ UNCHANGED heated
    /\ UNCHANGED <<valueVars, multiVars, at, op, now, calls>>
    /\ UNCHANGED <<okLoads, failedLoads, hookCalls, invCalls, expired, expReloads,
                   epoch, failed, loadTime, setTime, refreshed, created, lastSet,
                   touch, ignored>>
    /\ UNCHANGED <<bufVars, fileVars>>

\* Preheat that goes on to the next key after a Get that failed
Preheat_Continues(p) ==
    LET ks == loc[p].keys
        i == loc[p].i
    IN
    /\ pc[p] = "Preheat"
    /\ IF res[p] \in Errs /\ i > Len(ks)
       THEN /\ pc' = [pc EXCEPT ![p] = "idle"]
            /\ res' = [res EXCEPT ![p] = Wrap(key[p], res[p])]
            /\ UNCHANGED <<key, loc, heated>>
       ELSE IF i > Len(ks)
       THEN /\ pc' = [pc EXCEPT ![p] = "idle"]
            /\ res' = [res EXCEPT ![p] = Nil]
            /\ heated' = heated \cup {ks}
            /\ UNCHANGED <<key, loc>>
       ELSE /\ pc' = [pc EXCEPT ![p] = "mGet"]
            /\ key' = [key EXCEPT ![p] = ks[i]]
            /\ res' = [res EXCEPT ![p] = Nil]
            /\ loc' = [loc EXCEPT ![p] = [NoLoc EXCEPT !.keys = ks, !.i = i + 1,
                                                      !.inv = invCalls[<<"r", ks[i]>>],
                                                      !.exp = expired,
                                                      !.sawFail = failed[<<"r", ks[i]>>]]]
            /\ UNCHANGED heated
    /\ UNCHANGED <<valueVars, multiVars, at, op, now, calls>>
    /\ UNCHANGED <<okLoads, failedLoads, hookCalls, invCalls, expired, expReloads,
                   epoch, failed, loadTime, setTime, refreshed, created, lastSet,
                   touch, ignored>>
    /\ UNCHANGED <<bufVars, fileVars>>

\* MultiCache.Preheat, the loop (lines 37-43): the error of the last Get
\* ends it, otherwise the next key is read, and after the last key Preheat
\* returns nil
Preheat(p) ==
    LET ks == loc[p].keys
        i == loc[p].i
    IN
    /\ pc[p] = "Preheat"
    /\ IF res[p] \in Errs
       THEN /\ pc' = [pc EXCEPT ![p] = "idle"]
            /\ res' = [res EXCEPT ![p] = Wrap(key[p], res[p])]
            /\ UNCHANGED <<key, loc, heated>>
       ELSE IF i > Len(ks)
       THEN /\ pc' = [pc EXCEPT ![p] = "idle"]
            /\ res' = [res EXCEPT ![p] = Nil]
            /\ heated' = heated \cup {ks}
            /\ UNCHANGED <<key, loc>>
       ELSE /\ pc' = [pc EXCEPT ![p] = "mGet"]
            /\ key' = [key EXCEPT ![p] = ks[i]]
            /\ res' = [res EXCEPT ![p] = Nil]
            /\ loc' = [loc EXCEPT ![p] = [NoLoc EXCEPT !.keys = ks, !.i = i + 1,
                                                      !.inv = invCalls[<<"r", ks[i]>>],
                                                      !.exp = expired,
                                                      !.sawFail = failed[<<"r", ks[i]>>]]]
            /\ UNCHANGED heated
    /\ UNCHANGED <<valueVars, multiVars, at, op, now, calls>>
    /\ UNCHANGED <<okLoads, failedLoads, hookCalls, invCalls, expired, expReloads,
                   epoch, failed, loadTime, setTime, refreshed, created, lastSet,
                   touch, ignored>>
    /\ UNCHANGED <<bufVars, fileVars>>

\* SetTTLPolicy that also gives the new ttl to the entries that exist
SetTTLPolicy_Retroactive ==
    /\ calls < MaxCalls
    /\ calls' = calls + 1
    /\ lock["r"] = {}
    /\ \E d \in TTLs :
          /\ mcTtl' = [mcTtl EXCEPT !["r"] = d]
          /\ ttl' = [s \in Slot |-> IF s[1] = "r" /\ s[2] \in values["r"]
                                    THEN d ELSE ttl[s]]
          /\ expiration' = [s \in Slot |-> IF s[1] = "r" /\ s[2] \in values["r"]
                                           THEN now + d ELSE expiration[s]]
    /\ UNCHANGED <<val, getRefreshes, onInvalidate, mux, kind>>
    /\ UNCHANGED <<values, lock, procVars, now, histVars>>
    /\ UNCHANGED <<bufVars, fileVars>>

\* MultiCache.SetTTLPolicy(d), d > 0 (lines 120-127)
SetTTLPolicy ==
    /\ calls < MaxCalls
    /\ calls' = calls + 1
    /\ lock["r"] = {}
    /\ \E d \in TTLs : mcTtl' = [mcTtl EXCEPT !["r"] = d]
    /\ UNCHANGED <<valueVars, values, lock, procVars, now, histVars>>
    /\ UNCHANGED <<bufVars, fileVars>>

\* ----------------------------------------------- buffered MultiCache
\* The read cache is the MultiCache "r", the write buffer the MultiCache "w"
\* whose values are atoms.

\* a caller starts Get(k) (src/buffered/buffered.go:51-53): readCache.Get(k)
BCallGet(p, k) ==
    /\ pc[p] = "idle"
    /\ calls < MaxCalls
    /\ calls' = calls + 1
    /\ pc' = [pc EXCEPT ![p] = "mGet"]
    /\ op' = [op EXCEPT ![p] = "Get"]
    /\ at' = [at EXCEPT ![p] = "r"]
    /\ key' = [key EXCEPT ![p] = k]
    /\ res' = [res EXCEPT ![p] = Nil]
    /\ loc' = [loc EXCEPT ![p] = [NoLoc EXCEPT !.inv = invCalls[<<"r", k>>],
                                              !.old = superseded[k],
                                              !.clr = cleared[k]]]
    /\ UNCHANGED <<valueVars, multiVars, now, histVars, bufVars, fileVars>>

\* the loader of the read cache (lines 23-30) calls buffer.Get(key); the
\* goroutine keeps the RLock of the read cache and the Lock of its Value
rloading(p) ==
    /\ pc[p] = "loading"
    /\ at[p] = "r"
    /\ pc' = [pc EXCEPT ![p] = "mGet"]
    /\ at' = [at EXCEPT ![p] = "w"]
    /\ UNCHANGED <<valueVars, multiVars, op, key, res, loc, now, calls, histVars,
                   bufVars, fileVars>>

\* the loader of the write buffer (lines 17-22): a new atom holding the zero
\* value; it does not fail
wloading(p) ==
    /\ pc[p] = "loading"
    /\ at[p] = "w"
    /\ atoms' = Append(atoms, 0)
    /\ loadStore(p, S(p), Len(atoms) + 1, ttl[S(p)])
    /\ UNCHANGED <<getRefreshes, onInvalidate, kind, values, mcTtl, op, key, now,
                   calls, hookCalls, invCalls, expired, setTime, refreshed, lastSet, created, touch, ignored, heated,
                   done, superseded, cleared, fileVars>>

\* the loader of the read cache returns atom.Load() (line 29) and Value.load
\* stores it
atomLoad(p) ==
    /\ pc[p] = "atomLoad"
    /\ loadStore(p, S(p), atoms[res[p]], ttl[S(p)])
    /\ UNCHANGED <<getRefreshes, onInvalidate, kind, values, mcTtl, op, key, now,
                   calls, hookCalls, invCalls, expired, setTime, refreshed, lastSet, created, touch, ignored, heated,
                   bufVars, fileVars>>

\* a caller starts Set(k, v) (lines 77-81) with a value v never written
\* before: writeBuffer.MustGet(k)
BCallSet(p, k) ==
    /\ pc[p] = "idle"
    /\ calls < MaxCalls
    /\ calls' = calls + 1
    /\ pc' = [pc EXCEPT ![p] = "mGet"]
    /\ op' = [op EXCEPT ![p] = "Set"]
    /\ at' = [at EXCEPT ![p] = "w"]
    /\ key' = [key EXCEPT ![p] = k]
    /\ res' = [res EXCEPT ![p] = Nil]
    /\ loc' = [q \in Procs |->
                IF q = p THEN [NoLoc EXCEPT !.arg = calls + 1, !.old = done[k]]
                ELSE IF key[q] = k
                THEN [loc[q] EXCEPT !.clr = FALSE,
                                    !.dirty = op[q] = "Unset" /\ pc[q] # "idle"]
                ELSE loc[q]]
    /\ cleared' = [cleared EXCEPT ![k] = FALSE]
    /\ UNCHANGED <<valueVars, multiVars, now, histVars, atoms, done, superseded,
                   fileVars>>

\* Set storing the value and returning without m.Invalidate(key)
Store_NoInvalidate(p) ==
    /\ pc[p] = "Store"
    /\ atoms' = [atoms EXCEPT ![res[p]] = loc[p].arg]
    /\ pc' = [pc EXCEPT ![p] = "idle"]
    /\ at' = [at EXCEPT ![p] = "r"]
    /\ loc' = [loc EXCEPT ![p].busy = lock["r"] # {}]
    /\ done' = [done EXCEPT ![key[p]] = @ \cup {loc[p].arg}]
    /\ superseded' = [superseded EXCEPT ![key[p]] = @ \cup loc[p].old]
    /\ UNCHANGED <<valueVars, multiVars, op, key, res, now, calls, histVars,
                   cleared, fileVars>>

\* Set, atom.Store(val) (line 79); m.Invalidate(key) comes next
Store(p) ==
    /\ pc[p] = "Store"
    /\ atoms' = [atoms EXCEPT ![res[p]] = loc[p].arg]
    /\ pc' = [pc EXCEPT ![p] = "mInvalidate"]
    /\ at' = [at EXCEPT ![p] = "r"]
    /\ loc' = [loc EXCEPT ![p].busy = lock["r"] # {}]
    /\ UNCHANGED <<valueVars, multiVars, op, key, res, now, calls, histVars,
                   done, superseded, cleared, fileVars>>

\* Unset that goes straight to readCache.Invalidate(k) and leaves the write
\* buffer as it is
BCallUnset_NoBuffer(p, k) ==
    /\ pc[p] = "idle"
    /\ calls < MaxCalls
    /\ calls' = calls + 1
    /\ pc' = [pc EXCEPT ![p] = "mInvalidate"]
    /\ op' = [op EXCEPT ![p] = "Unset"]
    /\ at' = [at EXCEPT ![p] = "r"]
    /\ key' = [key EXCEPT ![p] = k]
    /\ res' = [res EXCEPT ![p] = Nil]
    /\ loc' = [q \in Procs |->
                IF q = p THEN [NoLoc EXCEPT !.dirty = SetRunning(p, k)]
                ELSE IF pc[q] # "idle" /\ key[q] = k
                THEN [loc[q] EXCEPT !.old = @ \ {0}]
                ELSE loc[q]]
    /\ done' = [done EXCEPT ![k] = @ \ {0}]
    /\ superseded' = [superseded EXCEPT ![k] = @ \ {0}]
    /\ UNCHANGED <<valueVars, multiVars, now, histVars, atoms, cleared, fileVars>>

\* a caller starts Unset(k) (lines 85-88): writeBuffer.Invalidate(k).  The
\* zero value is about to be written again: it is no longer superseded.
BCallUnset(p, k) ==
    /\ pc[p] = "idle"
    /\ calls < MaxCalls
    /\ calls' = calls + 1
    /\ pc' = [pc EXCEPT ![p] = "mInvalidate"]
    /\ op' = [op EXCEPT ![p] = "Unset"]
    /\ at' = [at EXCEPT ![p] = "w"]
    /\ key' = [key EXCEPT ![p] = k]
    /\ res' = [res EXCEPT ![p] = Nil]
    /\ loc' = [q \in Procs |->
                IF q = p THEN [NoLoc EXCEPT !.dirty = SetRunning(p, k)]
                ELSE IF pc[q] # "idle" /\ key[q] = k
                THEN [loc[q] EXCEPT !.old = @ \ {0}]
                ELSE loc[q]]
    /\ done' = [done EXCEPT ![k] = @ \ {0}]
    /\ superseded' = [superseded EXCEPT ![k] = @ \ {0}]
    /\ UNCHANGED <<valueVars, multiVars, now, histVars, atoms, cleared, fileVars>>

\* Invalidate(k) that discards the entry of the write buffer
BCallInvalidate_WriteBuffer(p, k) ==
    /\ pc[p] = "idle"
    /\ calls < MaxCalls
    /\ calls' = calls + 1
    /\ pc' = [pc EXCEPT ![p] = "mInvalidate"]
    /\ op' = [op EXCEPT ![p] = "Invalidate"]
    /\ at' = [at EXCEPT ![p] = "w"]
    /\ key' = [key EXCEPT ![p] = k]
    /\ res' = [res EXCEPT ![p] = Nil]
    /\ loc' = [loc EXCEPT ![p] = NoLoc]
    /\ UNCHANGED <<valueVars, multiVars, now, histVars, bufVars, fileVars>>

\* a caller starts Invalidate(k) (lines 65-67): readCache.Invalidate(k)
BCallInvalidate(p, k) ==
    /\ pc[p] = "idle"
    /\ calls < MaxCalls
    /\ calls' = calls + 1
    /\ pc' = [pc EXCEPT ![p] = "mInvalidate"]
    /\ op' = [op EXCEPT ![p] = "Invalidate"]
    /\ at' = [at EXCEPT ![p] = "r"]
    /\ key' = [key EXCEPT ![p] = k]
    /\ res' = [res EXCEPT ![p] = Nil]
    /\ loc' = [loc EXCEPT ![p] = NoLoc]
    /\ UNCHANGED <<valueVars, multiVars, now, histVars, bufVars, fileVars>>

\* ------------------------------------------------- file-backed Value
\* The Value of NewReaderCache is the slot V; its content is the version of
\* the file the loader read.

\* the fsnotify watcher delivers events: Add succeeded, Close not yet called
Watching == wpc \in {"select", "invalidate"}

\* the loader returning its error without cancel()
floading_NoCancel(p) ==
    /\ pc[p] = "loading"
    /\ at[p] = "v"
    /\ \/ loadFail(p, V, Err)
       \/ /\ res' = [res EXCEPT ![p] = fileVer]
          /\ pc' = [pc EXCEPT ![p] = "fstore"]
          /\ UNCHANGED <<val, ttl, expiration, mux, okLoads, failedLoads,
                         expReloads, epoch, failed, loadTime, loc, at, lock>>
    /\ UNCHANGED ctxDone
    /\ UNCHANGED <<getRefreshes, onInvalidate, kind, values, mcTtl, op, key, now,
                   calls, hookCalls, invCalls, expired, setTime, refreshed, lastSet, created, touch, ignored, heated,
                   bufVars, parentDone, wpc, events, errs, fileVer, log, fileHist>>

\* Value.load calls the loader of NewReaderCache (lines 32-49): os.Open or
\* readFunc fails, and the loader cancels the context and returns the error,
\* or the loader has read the content of the file
floading(p) ==
    /\ pc[p] = "loading"
    /\ at[p] = "v"
    /\ \/ /\ loadFail(p, V, Err)
          /\ ctxDone' = TRUE
       \/ /\ res' = [res EXCEPT ![p] = fileVer]
          /\ pc' = [pc EXCEPT ![p] = "fstore"]
          /\ UNCHANGED <<val, ttl, expiration, mux, okLoads, failedLoads,
                         expReloads, epoch, failed, loadTime, loc, at, lock>>
          /\ UNCHANGED ctxDone
    /\ UNCHANGED <<getRefreshes, onInvalidate, kind, values, mcTtl, op, key, now,
                   calls, hookCalls, invCalls, expired, setTime, refreshed, lastSet, created, touch, ignored, heated,
                   bufVars, parentDone, wpc, events, errs, fileVer, log, fileHist>>

\* the loader of NewReaderCache returns what it read (line 48) and
\* Value.load stores it
fstore(p) ==
    /\ pc[p] = "fstore"
    /\ loadStore(p, V, res[p], ttl[V])
    /\ UNCHANGED <<getRefreshes, onInvalidate, kind, values, mcTtl, op, key, now,
                   calls, hookCalls, invCalls, expired, setTime, refreshed, lastSet, created, touch, ignored, heated,
                   bufVars, fileVars>>

\* the caller cancels the context it passed to NewReaderCache; the context
\* derived from it (line 31) is done as well
Cancel ==
    /\ ~parentDone
    /\ parentDone' = TRUE
    /\ ctxDone' = TRUE
    /\ UNCHANGED <<valueVars, multiVars, procVars, now, calls, histVars, bufVars,
                   wpc, events, errs, fileVer, log, fileHist>>

\* the watcher goroutine, watcher.Add(watchDir) (lines 69-73): on an error
\* it logs and returns, and the deferred watcher.Close() runs
WatcherAdd ==
    /\ wpc = "start"
    /\ \/ /\ wpc' = "select"
          /\ UNCHANGED <<log, closes>>
       \/ /\ wpc' = "failed"
          /\ log' = [log EXCEPT !.Error = @ + 1]
          /\ closes' = closes + 1
    /\ UNCHANGED <<valueVars, multiVars, procVars, now, calls, histVars, bufVars,
                   parentDone, ctxDone, events, errs, fileVer, seen, wBusy>>

\* something writes the watched file; a watcher that is watching gets an event
FileWrite ==
    /\ calls < MaxCalls
    /\ calls' = calls + 1
    /\ fileVer' = fileVer + 1
    /\ IF Watching
       THEN /\ Len(events) < MaxEvents
            /\ events' = Append(events, "file")
       ELSE UNCHANGED events
    /\ UNCHANGED <<valueVars, multiVars, procVars, now, histVars, bufVars,
                   parentDone, ctxDone, wpc, errs, log, fileHist>>

\* something changes another file of the watched directory
OtherWrite ==
    /\ calls < MaxCalls
    /\ calls' = calls + 1
    /\ Watching
    /\ Len(events) < MaxEvents
    /\ events' = Append(events, "other")
    /\ UNCHANGED <<valueVars, multiVars, procVars, now, histVars, bufVars,
                   parentDone, ctxDone, wpc, errs, fileVer, log, fileHist>>

\* fsnotify reports an error on watcher.Errors
WatchError ==
    /\ calls < MaxCalls
    /\ calls' = calls + 1
    /\ Watching
    /\ errs = 0
    /\ errs' = 1
    /\ UNCHANGED <<valueVars, multiVars, procVars, now, histVars, bufVars,
                   parentDone, ctxDone, wpc, events, fileVer, log, fileHist>>

\* the watcher goroutine invalidating the Value when it exits
wExit_Invalidates ==
    /\ wpc = "select"
    /\ ctxDone
    /\ mux[V] = None
    /\ invalidate(V)
    /\ wpc' = "exited"
    /\ closes' = closes + 1
    /\ events' = << >>
    /\ errs' = 0
    /\ UNCHANGED <<ttl, getRefreshes, onInvalidate, mux, kind, multiVars, procVars,
                   now, calls, okLoads, failedLoads, expired, expReloads, epoch,
                   failed, loadTime, setTime, refreshed, lastSet, created, touch,
                   ignored, heated, bufVars,
                   parentDone, ctxDone, fileVer, log, seen, wBusy>>

\* select, case <-ctx.Done() (lines 76-77): return, and the deferred
\* watcher.Close() (lines 63-68) ends the delivery of events
wExit ==
    /\ wpc = "select"
    /\ ctxDone
    /\ wpc' = "exited"
    /\ closes' = closes + 1
    /\ events' = << >>
    /\ errs' = 0
    /\ UNCHANGED <<valueVars, multiVars, procVars, now, calls, histVars, bufVars,
                   parentDone, ctxDone, fileVer, log, seen, wBusy>>

\* the event loop without the comparison of evt.Name with filename
wEvent_AnyFile ==
    /\ wpc = "select"
    /\ events # << >>
    /\ events' = Tail(events)
    /\ IF Head(events) \in {"file", "other"}
       THEN /\ log' = [log EXCEPT !.Event = @ + 1]
            /\ wpc' = "invalidate"
            /\ wBusy' = (wBusy \/ mux[V] # None)
       ELSE /\ log' = [log EXCEPT !.UnrelatedEvent = @ + 1]
            /\ wpc' = "select"
            /\ UNCHANGED wBusy
    /\ UNCHANGED <<valueVars, multiVars, procVars, now, calls, histVars, bufVars,
                   parentDone, ctxDone, errs, fileVer, seen, closes>>

\* select, case evt := <-watcher.Events (lines 78-83): an event of another
\* file is logged as unrelated, an event of the file is logged and
\* _cache.Invalidate() comes next
wEvent ==
    /\ wpc = "select"
    /\ events # << >>
    /\ events' = Tail(events)
    /\ IF Head(events) = "file"
       THEN /\ log' = [log EXCEPT !.Event = @ + 1]
            /\ wpc' = "invalidate"
            /\ wBusy' = (wBusy \/ mux[V] # None)
       ELSE /\ log' = [log EXCEPT !.UnrelatedEvent = @ + 1]
            /\ wpc' = "select"
            /\ UNCHANGED wBusy
    /\ UNCHANGED <<valueVars, multiVars, procVars, now, calls, histVars, bufVars,
                   parentDone, ctxDone, errs, fileVer, seen, closes>>

\* the watcher giving up the invalidation when a load holds the lock
wInvalidate_Lost ==
    /\ wpc = "invalidate"
    /\ IF mux[V] = None
       THEN invalidate(V)
       ELSE UNCHANGED <<val, expiration, hookCalls, invCalls>>
    /\ wpc' = "select"
    /\ seen' = fileVer
    /\ UNCHANGED <<ttl, getRefreshes, onInvalidate, mux, kind, multiVars, procVars,
                   now, calls, okLoads, failedLoads, expired, expReloads, epoch,
                   failed, loadTime, setTime, refreshed, lastSet, created, touch, ignored, heated, bufVars,
                   parentDone, ctxDone, events, errs, fileVer, log, wBusy, closes>>

\* _cache.Invalidate() called by the watcher goroutine (line 86)
wInvalidate ==
    /\ wpc = "invalidate"
    /\ invalidate(V)
    /\ wpc' = "select"
    /\ seen' = fileVer
    /\ UNCHANGED <<ttl, getRefreshes, onInvalidate, mux, kind, multiVars, procVars,
                   now, calls, okLoads, failedLoads, expired, expReloads, epoch,
                   failed, loadTime, setTime, refreshed, lastSet, created, touch, ignored, heated, bufVars,
                   parentDone, ctxDone, events, errs, fileVer, log, wBusy, closes>>

\* the watcher goroutine returning on an error of the watcher
wError_Exits ==
    /\ wpc = "select"
    /\ errs > 0
    /\ errs' = 0
    /\ events' = << >>
    /\ wpc' = "exited"
    /\ closes' = closes + 1
    /\ log' = [log EXCEPT !.Error = @ + 1]
    /\ UNCHANGED <<valueVars, multiVars, procVars, now, calls, histVars, bufVars,
                   parentDone, ctxDone, fileVer, seen, wBusy>>

\* select, case err := <-watcher.Errors (lines 87-88)
wError ==
    /\ wpc = "select"
    /\ errs > 0
    /\ errs' = 0
    /\ log' = [log EXCEPT !.Error = @ + 1]
    /\ UNCHANGED <<valueVars, multiVars, procVars, now, calls, histVars, bufVars,
                   parentDone, ctxDone, wpc, events, fileVer, fileHist>>

\* NewEager returning the Value of New without a Get
CallNewEager_Lazy(p) ==
    /\ kind = "NewEager"
    /\ \A q \in Procs : op[q] = None
    /\ op' = [op EXCEPT ![p] = "NewEager"]
    /\ UNCHANGED <<pc, at, key, res, loc>>
    /\ UNCHANGED <<valueVars, multiVars, now, calls, histVars, bufVars, fileVars>>

\* NewEager (lines 372-379): cache := New(loader), then cache.Get() by the
\* goroutine that constructs, before anything else has the Value
CallNewEager(p) ==
    /\ kind = "NewEager"
    /\ \A q \in Procs : op[q] = None
    /\ pc' = [pc EXCEPT ![p] = "Get"]
    /\ op' = [op EXCEPT ![p] = "NewEager"]
    /\ UNCHANGED <<at, key, res, loc>>
    /\ UNCHANGED <<valueVars, multiVars, now, calls, histVars, bufVars, fileVars>>

\* NewEager is at its return (lines 375-378)
Built(p) == op[p] = "NewEager" /\ pc[p] = "idle"

\* the constructor has returned a Value: New has, and NewEager has when its
\* Get returned no error (with an error it returns nil, err)
Usable ==
    \/ kind # "NewEager"
    \/ /\ \E p \in Procs : op[p] # None
       /\ \A p \in Procs : op[p] = "NewEager" => (Built(p) /\ res[p] \notin Errs)

\* the durations a caller may pass: those SetTTL and SetTTLPolicy accept
\* and those they reject
Durations == {0 - 1, 0} \cup TTLs

\* a goroutine of Procs starts Value.SetTTL(d)
CallSetTTL(p, d) ==
    /\ pc[p] = "idle"
    /\ calls < MaxCalls
    /\ calls' = calls + 1
    /\ pc' = [pc EXCEPT ![p] = "SetTTL"]
    /\ op' = [op EXCEPT ![p] = "SetTTL"]
    /\ at' = [at EXCEPT ![p] = "v"]
    /\ key' = [key EXCEPT ![p] = 0]
    /\ res' = [res EXCEPT ![p] = Nil]
    /\ loc' = [loc EXCEPT ![p] = [NoLoc EXCEPT !.arg = d]]
    /\ UNCHANGED <<valueVars, multiVars, now, histVars>>
    /\ UNCHANGED <<bufVars, fileVars>>

\* SetTTL whose deferred Unlock does not run when it panics
lockedSetTTL_KeepsLock(p) ==
    LET d == loc[p].arg IN
    /\ pc[p] = "SetTTL"
    /\ mux[V] = None
    /\ pc' = [pc EXCEPT ![p] = "idle"]
    /\ IF d <= 0
       THEN /\ res' = [res EXCEPT ![p] = Panic]
            /\ mux' = [mux EXCEPT ![V] = p]
            /\ UNCHANGED <<ttl, expiration, getRefreshes, failed, setTime, lastSet>>
       ELSE /\ res' = [res EXCEPT ![p] = Nil]
            /\ ttl' = [ttl EXCEPT ![V] = d]
            /\ expiration' = [expiration EXCEPT ![V] = now + d]
            /\ getRefreshes' = [getRefreshes EXCEPT ![V] = FALSE]
            /\ failed' = [failed EXCEPT ![V] = FALSE]
            /\ setTime' = [setTime EXCEPT ![V] = now]
            /\ lastSet' = [lastSet EXCEPT ![V] = TRUE]
            /\ UNCHANGED mux
    /\ UNCHANGED <<val, onInvalidate, kind, multiVars, at, op, key, loc, now, calls,
                   okLoads, failedLoads, hookCalls, invCalls, expired, expReloads,
                   epoch, loadTime, refreshed, created, touch, ignored, heated>>
    /\ UNCHANGED <<bufVars, fileVars>>

\* Value.SetTTL (lines 463-472) once it has the Lock: a duration <= 0
\* panics before any assignment and the deferred Unlock runs
lockedSetTTL(p) ==
    LET d == loc[p].arg IN
    /\ pc[p] = "SetTTL"
    /\ mux[V] = None
    /\ pc' = [pc EXCEPT ![p] = "idle"]
    /\ IF d <= 0
       THEN /\ res' = [res EXCEPT ![p] = Panic]
            /\ UNCHANGED <<ttl, expiration, getRefreshes, failed, setTime, lastSet>>
       ELSE /\ res' = [res EXCEPT ![p] = Nil]
            /\ ttl' = [ttl EXCEPT ![V] = d]
            /\ expiration' = [expiration EXCEPT ![V] = now + d]
            /\ getRefreshes' = [getRefreshes EXCEPT ![V] = FALSE]
            /\ failed' = [failed EXCEPT ![V] = FALSE]
            /\ setTime' = [setTime EXCEPT ![V] = now]
            /\ lastSet' = [lastSet EXCEPT ![V] = TRUE]
    /\ UNCHANGED <<val, onInvalidate, mux, kind, multiVars, at, op, key, loc, now, calls,
                   okLoads, failedLoads, hookCalls, invCalls, expired, expReloads,
                   epoch, loadTime, refreshed, created, touch, ignored, heated>>
    /\ UNCHANGED <<bufVars, fileVars>>

\* a goroutine of Procs starts MultiCache.SetTTLPolicy(d) on the cache "r"
CallSetTTLPolicy(p, d) ==
    /\ pc[p] = "idle"
    /\ calls < MaxCalls
    /\ calls' = calls + 1
    /\ pc' = [pc EXCEPT ![p] = "SetTTLPolicy"]
    /\ op' = [op EXCEPT ![p] = "SetTTLPolicy"]
    /\ at' = [at EXCEPT ![p] = "r"]
    /\ key' = [key EXCEPT ![p] = 0]
    /\ res' = [res EXCEPT ![p] = Nil]
    /\ loc' = [loc EXCEPT ![p] = [NoLoc EXCEPT !.arg = d]]
    /\ UNCHANGED <<valueVars, multiVars, now, histVars>>
    /\ UNCHANGED <<bufVars, fileVars>>

\* MultiCache.SetTTLPolicy (src/multicache.go:120-127) once it has m.lock,
\* which it gets when no Get holds the read lock: a duration <= 0 panics
\* before the assignment and the deferred Unlock runs
lockedSetTTLPolicy(p) ==
    LET d == loc[p].arg IN
    /\ pc[p] = "SetTTLPolicy"
    /\ lock["r"] = {}
    /\ pc' = [pc EXCEPT ![p] = "idle"]
    /\ IF d <= 0
       THEN /\ res' = [res EXCEPT ![p] = Panic]
            /\ UNCHANGED mcTtl
       ELSE /\ res' = [res EXCEPT ![p] = Nil]
            /\ mcTtl' = [mcTtl EXCEPT !["r"] = d]
    /\ UNCHANGED <<valueVars, values, lock, at, op, key, loc, now, calls, histVars>>
    /\ UNCHANGED <<bufVars, fileVars>>

\* ------------------------------------------- the stand-alone Value
Init ==
    /\ InitValue /\ InitMulti /\ InitProcs /\ InitHist /\ InitBuf /\ InitFile
    /\ kind \in {"New", "NewWithTTL"}

Next ==
    \/ \E p \in Procs : CallGet(p)
    \/ \E p \in Procs : Get(p)
    \/ \E p \in Procs : refreshTimer(p)
    \/ \E p \in Procs : refreshLock(p)
    \/ \E p \in Procs : loadLock(p)
    \/ \E p \in Procs : loading(p)
    \/ \E p \in Procs : CallInvalidate(p)
    \/ \E p \in Procs : Invalidate(p)
    \/ OnInvalidate
    \/ SetTTL
    \/ RemoveTTL
    \/ EnableGetTTLRefresh
    \/ Tick

Spec == Init /\ [][Next]_vars

\* --------------------------------------------- properties of the Value
Done(p) == pc[p] = "idle" /\ op[p] = "Get"

\* C1: concurrent Gets on one Value whose loader succeeds, with no Invalidate
\* and no deadline passed: the loader is called at most once in total and
\* every Get returns the value that one call produced.
C1_LoadOnce ==
    (invCalls[V] = 0 /\ expired = {} /\ failedLoads[V] = 0) =>
        /\ LoaderCalls(V) <= 1
        /\ \A p \in Procs : Done(p) => res[p] = 1 /\ res[p] = val[V]

\* both goroutines were inside Get together; one called the loader, the other
\* found the value at the second check under the Lock
C1_Witness ==
    /\ invCalls[V] = 0 /\ expired = {} /\ failedLoads[V] = 0
    /\ \E p, q \in Procs :
        /\ Done(p) /\ loc[p].how = "loaded"
        /\ Done(q) /\ loc[q].how = "slow" /\ res[q] = res[p]

\* C2: no Get that begins after an Invalidate returned is served a value
\* stored before that Invalidate took effect, and without a passed deadline
\* the loader succeeds at most once per Invalidate (plus the first load):
\* the Gets after the reload do not call it again.
C2_ReloadAfterInvalidate ==
    /\ \A p \in Procs : ~loc[p].stale
    /\ okLoads[V] <= 1 + invCalls[V] + expReloads[V]

\* an Invalidate arrived while a load held the lock, and a Get that began
\* after it returned called the loader once and got the new value
C2_Witness ==
    \E p, q \in Procs :
        /\ op[p] = "Invalidate" /\ pc[p] = "idle" /\ loc[p].busy
        /\ Done(q) /\ loc[q].inv = 1 /\ loc[q].how = "loaded" /\ loc[q].called = 1
        /\ res[q] = 2 /\ val[V] = 2

Hit(p) == loc[p].how = "fast"
Miss(p) == pc[p] \in {"load", "loading"} \/ loc[p].how \in {"slow", "loaded", "failed"}

\* C4 as stated: the deadline is d after the load.
C4_Original ==
    [][ \A p \in Procs :
          (pc[p] = "Get" /\ pc'[p] # "Get" /\ Timed(S(p))) =>
              /\ now < Deadline0(S(p)) => pc'[p] # "load"
              /\ now > Deadline0(S(p)) => pc'[p] = "load" ]_vars

\* C4, amended: with a ttl d set and read-refresh never enabled, a Get whose check runs
\* before d has elapsed since the load or since the last SetTTL call,
\* whichever is later, is served the held value without a loader call; one
\* whose check runs after that goes to load, and calls the loader at most once.
C4_Deadline ==
    \A p \in Procs :
        /\ loc[p].when = "early" => (Hit(p) /\ loc[p].called = 0)
        /\ loc[p].when = "late" => (Miss(p) /\ loc[p].called <= 1)

\* a Get after the deadline reloaded, and a Get before the new deadline was
\* served the new value without a loader call
C4_Witness ==
    \E p, q \in Procs :
        /\ Done(p) /\ loc[p].when = "late" /\ loc[p].how = "loaded"
        /\ Done(q) /\ loc[q].when = "early" /\ loc[q].how = "fast" /\ res[q] = res[p]

\* C5: no Get that begins after the deadline of a value has passed is served
\* that value.
C5_ExpiredIsGone == \A p \in Procs : ~loc[p].dead

\* C6: the hook is called exactly once by every Invalidate, held value or
\* not, and by nothing else.
C6_HookOnInvalidate ==
    [][ \A s \in Slot :
          hookCalls'[s] =
             IF invCalls'[s] # invCalls[s] /\ onInvalidate[s]
             THEN hookCalls[s] + 1 ELSE hookCalls[s] ]_vars

\* an Invalidate of a Value that held nothing called the hook
C6_Witness ==
    /\ hookCalls[V] = 1 /\ invCalls[V] = 1 /\ LoaderCalls(V) = 0
    /\ \E p \in Procs : op[p] = "Invalidate" /\ pc[p] = "idle"

\* -------------------------------------------------- the MultiCache
\* NewMulti(loader) (src/multicache.go:24-32)
InitM ==
    /\ InitValue /\ InitMulti /\ InitProcs /\ InitHist /\ InitBuf /\ InitFile
    /\ kind = "New"

NextM ==
    \/ \E p \in Procs, k \in Keys : MCallGet(p, "r", k)
    \/ \E p \in Procs : mGet(p)
    \/ \E p \in Procs : populate(p)
    \/ \E p \in Procs : Get(p)
    \/ \E p \in Procs : loadLock(p)
    \/ \E p \in Procs : mloading(p)
    \/ \E p \in Procs, k \in Keys : MCallInvalidate(p, "r", k)
    \/ \E p \in Procs : mInvalidate(p)
    \/ MOnInvalidate
    \/ SetTTLPolicy
    \/ Tick

SpecMulti == InitM /\ [][NextM]_vars

\* ------------------------------------------ properties of the MultiCache
\* no held value of the Value in s has passed its deadline
NoExpiry(s) == \A e \in expired : e[1] # s

\* p has returned from MultiCache.Get(k)
DoneAt(p, k) == Done(p) /\ at[p] = "r" /\ key[p] = k

\* C8: populate creates a Value for a key only when the key has none: one
\* Value per key until an Invalidate deletes it, however many Gets missed
\* together.  With a succeeding loader, no Invalidate and no passed deadline
\* the keyed loader runs at most once for the key and every Get of the key
\* returns the value of that one Value.
C8_OneValuePerKey ==
    \A k \in Keys :
        LET s == <<"r", k>> IN
        /\ created[s] = invCalls[s] + (IF k \in values["r"] THEN 1 ELSE 0)
        /\ (invCalls[s] = 0 /\ failedLoads[s] = 0 /\ NoExpiry(s)) =>
              /\ LoaderCalls(s) <= 1
              /\ \A p \in Procs : DoneAt(p, k) => res[p] = 1 /\ res[p] = val[s]

\* two Gets missed on the same key together: one created the Value and
\* loaded it, the other found the entry at populate's second lookup
C8_Witness ==
    \E k \in Keys : \E p, q \in Procs :
        /\ created[<<"r", k>>] = 1 /\ invCalls[<<"r", k>>] = 0
        /\ DoneAt(p, k) /\ ~loc[p].found /\ loc[p].how = "loaded"
        /\ DoneAt(q, k) /\ loc[q].found /\ res[q] = res[p]

\* C9: a goroutine about to create the entry of a key (populate) or to
\* invalidate a key can take the lock of the MultiCache whenever the only
\* thing in its way is a loader running for a different key.
C9_NotBlockedByOtherKey ==
    \A p, q \in Procs :
        ( /\ pc[p] = "loading" /\ at[p] = "r"
          /\ pc[q] \in {"populate", "mInvalidate"} /\ at[q] = "r"
          /\ key[q] # key[p] )
        => lock["r"] = {}

\* ----------------------------------------- the buffered MultiCache
\* buffered.NewMulti() (src/buffered/buffered.go:16-35)
InitB ==
    /\ InitValue /\ InitMulti /\ InitProcs /\ InitHist /\ InitBuf /\ InitFile
    /\ kind = "New"

NextB ==
    \/ \E p \in Procs, k \in Keys : BCallGet(p, k)
    \/ \E p \in Procs, k \in Keys : BCallSet(p, k)
    \/ \E p \in Procs, k \in Keys : BCallUnset(p, k)
    \/ \E p \in Procs, k \in Keys : BCallInvalidate(p, k)
    \/ \E p \in Procs : mGet(p)
    \/ \E p \in Procs : populate(p)
    \/ \E p \in Procs : Get(p)
    \/ \E p \in Procs : loadLock(p)
    \/ \E p \in Procs : rloading(p)
    \/ \E p \in Procs : wloading(p)
    \/ \E p \in Procs : atomLoad(p)
    \/ \E p \in Procs : Store(p)
    \/ \E p \in Procs : mInvalidate(p)

SpecBuf == InitB /\ [][NextB]_vars

\* ------------------------------- properties of the buffered MultiCache
\* C7: a Get(k) that began after a Set(k, v) returned does not return a
\* value whose write had returned before that Set began: it returns v or the
\* value of a write concurrent with or later than the Set, whether or not
\* Gets of k were loading while the Set ran.
C7_ReadAfterWrite ==
    \A p \in Procs : (Done(p) /\ at[p] = "r") => res[p] \notin loc[p].old

\* a Set found a Get of its key holding the read cache, waited for it, and a
\* Get that began after the Set returned got the value of the Set
C7_Witness ==
    \E p, q \in Procs :
        /\ op[q] = "Set" /\ pc[q] = "idle" /\ loc[q].busy
        /\ Done(p) /\ key[p] = key[q] /\ 0 \in loc[p].old
        /\ res[p] = loc[q].arg /\ loc[p].how = "loaded"

\* ------------------------------------------- the file-backed Value
\* file.NewReaderCache (src/file/reader.go:16-93) has returned the Value
InitF ==
    /\ InitValue /\ InitMulti /\ InitProcs /\ InitHist /\ InitBuf /\ InitFile
    /\ kind = "File"

NextF ==
    \/ \E p \in Procs : CallGet(p)
    \/ \E p \in Procs : Get(p)
    \/ \E p \in Procs : loadLock(p)
    \/ \E p \in Procs : floading(p)
    \/ \E p \in Procs : fstore(p)
    \/ \E p \in Procs : CallInvalidate(p)
    \/ \E p \in Procs : Invalidate(p)
    \/ OnInvalidate
    \/ Cancel
    \/ WatcherAdd
    \/ FileWrite
    \/ OtherWrite
    \/ WatchError
    \/ wExit
    \/ wEvent
    \/ wInvalidate
    \/ wError

SpecFile == InitF /\ [][NextF]_vars

\* ---------------------------------- properties of the file-backed Value
\* C10 as stated: a load failure does not stop the watcher loop; the loop
\* ends only when the caller cancels the context.
C10_Original == wpc = "exited" => parentDone

\* C10, amended: a load failure is returned to the caller of Get and cancels
\* the context of the watcher goroutine; once the loop has ended on the
\* cancelled context no event is processed any more.
C10_LoadFailureCancels ==
    /\ [](\A p \in Procs : loc[p].how = "failed" => res[p] = Err)
    /\ [](failedLoads[V] > 0 => ctxDone)
    /\ [][wpc = "exited" => (wpc' = "exited" /\ log' = log)]_vars

\* after a failed load, with the context of the caller still live, the loop
\* has ended; a later Get loaded the file, the file has changed since, and
\* the Value still holds the old content
C10_Witness ==
    /\ failedLoads[V] >= 1 /\ ~parentDone /\ wpc = "exited"
    /\ val[V] # Nil /\ val[V] < fileVer

\* C11: a Get that begins after the watcher has invalidated the Value for a
\* change of the file, and whose load succeeds, returns content at least as
\* new as the file had at that invalidation, and never a value stored before
\* the invalidation -- also when the watcher had to wait for a load of the
\* old content.
C11_EventReloads ==
    \A p \in Procs :
        (Done(p) /\ res[p] # Err) => (res[p] >= loc[p].seen /\ ~loc[p].stale)

\* the file changed while a load of the old content held the lock; the
\* watcher waited, invalidated, and the next Get loaded the new content
\* (the only Invalidate was the watcher's)
C11_Witness ==
    /\ wBusy /\ invCalls[V] = 1 /\ okLoads[V] = 2
    /\ \A q \in Procs : op[q] # "Invalidate"
    /\ \E p \in Procs :
          Done(p) /\ loc[p].seen = 2 /\ res[p] = 2 /\ loc[p].how = "loaded"

\* --------------------------------- the Value with read-refresh enabled
\* v := New(loader); v.SetTTL(d); v.EnableGetTTLRefresh(), all at time 1
InitR ==
    /\ InitMulti /\ InitProcs /\ InitBuf /\ InitFile
    /\ kind = "New"
    /\ val = [s \in Slot |-> Nil]
    /\ \E d \in TTLs :
          /\ ttl = [s \in Slot |-> IF s = V THEN d ELSE 0]
          /\ expiration = [s \in Slot |-> IF s = V THEN 1 + d ELSE ZeroTime]
    /\ getRefreshes = [s \in Slot |-> s = V]
    /\ onInvalidate = [s \in Slot |-> FALSE]
    /\ mux = [s \in Slot |-> None]
    /\ now = 1
    /\ calls = 0
    /\ okLoads = [s \in Slot |-> 0]
    /\ failedLoads = [s \in Slot |-> 0]
    /\ hookCalls = [s \in Slot |-> 0]
    /\ invCalls = [s \in Slot |-> 0]
    /\ expReloads = [s \in Slot |-> 0]
    /\ failed = [s \in Slot |-> FALSE]
    /\ loadTime = [s \in Slot |-> 0]
    /\ setTime = [s \in Slot |-> IF s = V THEN 1 ELSE 0]
    /\ refreshed = [s \in Slot |-> s = V]
    /\ lastSet = [s \in Slot |-> FALSE]
    /\ created = [s \in Slot |-> 0]
    /\ touch = [s \in Slot |-> [t |-> 0, d |-> 0]]
    /\ ignored = {}
    /\ heated = {}
    /\ expired = {}
    /\ epoch = [s \in Slot |-> 0]

NextR ==
    \/ \E p \in Procs : CallGet(p)
    \/ \E p \in Procs : Get(p)
    \/ \E p \in Procs : refreshTimer(p)
    \/ \E p \in Procs : refreshLock(p)
    \/ \E p \in Procs : loadLock(p)
    \/ \E p \in Procs : loading(p)
    \/ \E p \in Procs : CallInvalidate(p)
    \/ \E p \in Procs : Invalidate(p)
    \/ OnInvalidate
    \/ SetTTL
    \/ RemoveTTL
    \/ EnableGetTTLRefresh
    \/ TickR

SpecRefresh == InitR /\ [][NextR]_vars

\* the deadline of the held value was last moved by a read-refresh that used
\* the ttl the Value has now, and read-refresh is enabled
Touched(s) ==
    val[s] # Nil /\ getRefreshes[s] /\ ttl[s] > 0 /\ touch[s].d = ttl[s]

\* C12: with read-refresh enabled and ttl d, the deadline is never earlier
\* than d after the last Get that refreshed it, and a Get whose check runs
\* less than d after that Get is served without going to load.
C12_RefreshKeepsAlive ==
    /\ [](Touched(V) => expiration[V] >= touch[V].t + ttl[V])
    /\ [][ \A p \in Procs :
             ( /\ pc[p] = "Get" /\ pc'[p] # "Get"
               /\ Touched(V) /\ now < touch[V].t + ttl[V] )
             => pc'[p] # "load" ]_vars

\* a Get was served the held value after the deadline the load and SetTTL
\* had given it, less than d after the Get that refreshed it
C12_Witness ==
    \E p \in Procs :
        /\ pc[p] = "refreshTimer" /\ loc[p].how = "fast"
        /\ Touched(V) /\ now < touch[V].t + ttl[V]
        /\ now > Deadline(V)
        /\ LoaderCalls(V) = 1

\* C13: a SetTTL(d) step sets ttl to d and the deadline to now + d, switches
\* read-refresh off, and leaves the held value, the hook and the numbers of
\* loader and hook calls as they were; and a Get that began after a SetTTL
\* with no EnableGetTTLRefresh since does not move the deadline.
C13_SetTTL ==
    /\ [][ SetTTL =>
             /\ ttl'[V] \in TTLs
             /\ expiration'[V] = now + ttl'[V]
             /\ ~getRefreshes'[V]
             /\ val' = val /\ onInvalidate' = onInvalidate
             /\ okLoads' = okLoads /\ failedLoads' = failedLoads
             /\ hookCalls' = hookCalls ]_vars
    /\ [][ \A p \in Procs :
             (pc[p] # "idle" /\ pc'[p] = "idle" /\ loc[p].sawOff)
             => expiration' = expiration \/ pc[p] \in {"load", "loading"} ]_vars

\* read-refresh had been enabled and SetTTL called after it; a Get that
\* began then was served the held value and left the deadline where SetTTL
\* had put it
C13_Witness ==
    /\ refreshed[V] /\ lastSet[V] /\ ~getRefreshes[V]
    /\ expiration[V] = setTime[V] + ttl[V]
    /\ \E p \in Procs : Done(p) /\ loc[p].sawOff /\ loc[p].how = "fast"

\* the check of p's Get under RLock, or its second check under Lock, runs in
\* this step and finds a value to serve
Checks(p) == pc[p] \in {"Get", "load"} /\ pc'[p] # pc[p]
Serves(p) == pc'[p] \in {"idle", "refreshTimer"}

\* C14 as stated: a held value is served exactly when ttl == 0 or
\* now < expiration; at now == expiration the Get reloads.
C14_Original ==
    [][ \A p \in Procs :
          Checks(p) =>
             (Serves(p) <=> (val[V] # Nil /\ (ttl[V] = 0 \/ now < expiration[V]))) ]_vars

\* C14, amended: a held value is served exactly when ttl == 0 or
\* now <= expiration; at now == expiration the value is still served, and
\* the Get goes on to load only when now is past the deadline.
C14_ServedUntilPast ==
    [][ \A p \in Procs :
          Checks(p) =>
             (Serves(p) <=> (val[V] # Nil /\ (ttl[V] = 0 \/ now <= expiration[V]))) ]_vars

\* a Get was served the held value at the instant of its deadline
C14_Witness ==
    \E p \in Procs :
        /\ Done(p) /\ loc[p].how = "fast" /\ loc[p].called = 0
        /\ ttl[V] > 0 /\ now = expiration[V] /\ ~refreshed[V]
        /\ res[p] = val[V] /\ LoaderCalls(V) = 1

\* C15: a RemoveTTL step clears ttl and the deadline and leaves the held
\* value and the numbers of loader and hook calls as they were; and while
\* ttl is 0 a held value is served by every check of a Get, is not replaced
\* except through Invalidate, and no loader call is made, however far the
\* clock moves.
C15_RemoveTTL ==
    /\ [][ RemoveTTL =>
             /\ ttl'[V] = 0 /\ expiration'[V] = ZeroTime
             /\ val' = val
             /\ okLoads' = okLoads /\ failedLoads' = failedLoads
             /\ hookCalls' = hookCalls ]_vars
    /\ [][ (ttl[V] = 0 /\ val[V] # Nil) =>
             /\ val'[V] = val[V] \/ invCalls'[V] # invCalls[V]
             /\ LoaderCalls(V)' = LoaderCalls(V)
             /\ \A p \in Procs :
                   Checks(p) => (Serves(p) /\ res'[p] = val[V]) ]_vars

\* RemoveTTL was called on a value loaded with a ttl before its deadline;
\* a Get later than the deadline it had been given was served that value
C15_Witness ==
    /\ kind = "NewWithTTL" /\ ttl[V] = 0 /\ val[V] # Nil /\ expired = {}
    /\ LoaderCalls(V) = 1 /\ hookCalls[V] = 0
    /\ \E p, q \in Procs :
          /\ Done(q) /\ loc[q].how = "loaded" /\ now > loadTime[V] + loc[q].got[2]
          /\ Done(p) /\ loc[p].how = "fast" /\ res[p] = val[V]

C17_LoaderTtl ==
    [][ \A p \in Procs :
          ( /\ kind = "NewWithTTL" /\ pc[p] = "loading" /\ pc'[p] = "idle"
            /\ res'[p] \notin Errs )
          => /\ loc'[p].got[2] > 0
             /\ ttl'[V] = loc'[p].got[2]
             /\ expiration'[V] = now + loc'[p].got[2]
             /\ loadTime'[V] = now ]_vars

\* SetTTL had set a longer ttl before the first Get; the loader returned a
\* shorter one, and the value has expired although the ttl of SetTTL has
\* not yet run out
C17_Witness ==
    \E p \in Procs :
        /\ Done(p) /\ loc[p].how = "loaded" /\ LoaderCalls(V) = 1
        /\ loc[p].got[1] > loc[p].got[2] /\ ttl[V] = loc[p].got[2]
        /\ setTime[V] > 0 /\ setTime[V] <= loadTime[V]
        /\ cacheExpired(V, now) /\ now <= setTime[V] + loc[p].got[1]

\* C18: MultiCache.Invalidate(k) on a key with an entry invalidates the
\* Value of the entry and deletes the entry; on a key without an entry it
\* changes nothing; in both cases the entries, values and load counts of
\* the other keys stay as they are.  The Value a later Get creates is loaded
\* once: while no deadline has passed no load succeeds for a key whose
\* present Value is already loaded, and a Get that began after the
\* Invalidate returns the value loaded after it.
C18_Invalidate ==
    /\ [][ \A p \in Procs :
             (pc[p] = "mInvalidate" /\ pc'[p] # "mInvalidate" /\ at[p] = "r") =>
                LET k == key[p]
                    s == <<"r", k>>
                IN /\ k \notin values'["r"]
                   /\ \A j \in Keys \ {k} :
                         LET t == <<"r", j>> IN
                         /\ (j \in values'["r"]) = (j \in values["r"])
                         /\ val'[t] = val[t] /\ ttl'[t] = ttl[t]
                         /\ expiration'[t] = expiration[t]
                         /\ okLoads'[t] = okLoads[t]
                         /\ failedLoads'[t] = failedLoads[t]
                         /\ invCalls'[t] = invCalls[t]
                         /\ created'[t] = created[t]
                   /\ IF k \in values["r"]
                      THEN /\ val'[s] = Nil
                           /\ invCalls'[s] = invCalls[s] + 1
                           /\ ~onInvalidate'[s] /\ ~getRefreshes'[s]
                      ELSE /\ val'[s] = val[s] /\ ttl'[s] = ttl[s]
                           /\ expiration'[s] = expiration[s]
                           /\ invCalls'[s] = invCalls[s]
                           /\ hookCalls'[s] = hookCalls[s]
                           /\ onInvalidate'[s] = onInvalidate[s]
                   /\ okLoads'[s] = okLoads[s] /\ failedLoads'[s] = failedLoads[s]
                   /\ created'[s] = created[s] ]_vars
    /\ [][ \A k \in Keys :
             LET s == <<"r", k>> IN
             (okLoads'[s] # okLoads[s] /\ NoExpiry(s)) =>
                /\ k \in values["r"]
                /\ okLoads[s] = 0 \/ epoch[s] < invCalls[s] ]_vars
    /\ [] \A p \in Procs : \A k \in Keys :
             LET s == <<"r", k>> IN
             ( /\ DoneAt(p, k) /\ res[p] \notin Errs /\ NoExpiry(s)
               /\ loc[p].inv = invCalls[s] )
             => /\ k \in values["r"] /\ res[p] = val[s]
                /\ created[s] = invCalls[s] + 1 /\ epoch[s] = invCalls[s]

\* a key was loaded, invalidated and read again: the second Get created the
\* second Value of the key and called the loader once
C18_Witness ==
    \E k \in Keys : \E p \in Procs :
        LET s == <<"r", k>> IN
        /\ invCalls[s] = 1 /\ created[s] = 2 /\ okLoads[s] = 2
        /\ failedLoads[s] = 0
        /\ DoneAt(p, k) /\ loc[p].inv = 1 /\ loc[p].called = 1
        /\ res[p] = 2 /\ val[s] = 2

\* C19: MultiCache.OnInvalidate(k, fn) on a key without an entry does
\* nothing: no Value and no entry changes, and no hook is kept for a key
\* without an entry.  The Value a later Get creates has no hook, so an
\* Invalidate calls a hook only when an OnInvalidate found the entry.
C19_NoHookWithoutEntry ==
    /\ [] \A k \in Keys : k \notin values["r"] => ~onInvalidate[<<"r", k>>]
    /\ [][ ignored' # ignored =>
             UNCHANGED <<valueVars, multiVars, hookCalls, invCalls, created>> ]_vars
    /\ [][ \A k \in Keys :
             LET s == <<"r", k>> IN
             /\ (k \notin values["r"] /\ k \in values'["r"]) => ~onInvalidate'[s]
             /\ hookCalls'[s] # hookCalls[s] => onInvalidate[s] ]_vars

\* OnInvalidate was called for a key that had no entry; a later Get made
\* the entry and loaded it, and the Invalidate after it called no hook
C19_Witness ==
    \E k \in Keys : \E p \in Procs :
        LET s == <<"r", k>> IN
        /\ k \in ignored /\ created[s] = 1
        /\ okLoads[s] = 1 /\ invCalls[s] = 1 /\ hookCalls[s] = 0
        /\ op[p] = "Invalidate" /\ pc[p] = "idle" /\ key[p] = k

\* ------------------------------------------------- MultiCache.Preheat
\* NewMulti(loader) without a TTL policy; callers preheat, read and invalidate
NextP ==
    \/ \E p \in Procs, ks \in KeyLists : PCallPreheat(p, ks)
    \/ \E p \in Procs : Preheat(p)
    \/ \E p \in Procs, k \in Keys : MCallGet(p, "r", k)
    \/ \E p \in Procs : mGet(p)
    \/ \E p \in Procs : populate(p)
    \/ \E p \in Procs : Get(p)
    \/ \E p \in Procs : loadLock(p)
    \/ \E p \in Procs : mloading(p)
    \/ \E p \in Procs, k \in Keys : MCallInvalidate(p, "r", k)
    \/ \E p \in Procs : mInvalidate(p)

SpecPreheat == InitM /\ [][NextP]_vars

\* C20: after Preheat(keys) has returned nil, every key of the list that has
\* not been invalidated and whose loader never failed has been loaded
\* exactly once, however often the list names it, and holds the loaded
\* value; a Get of such a key that begins after the Preheat calls no loader
\* and returns the held value.
C20_PreheatOnce ==
    /\ \A k \in Heated :
          LET s == <<"r", k>> IN
          (invCalls[s] = 0 /\ failedLoads[s] = 0) =>
             /\ LoaderCalls(s) = 1
             /\ k \in values["r"] /\ val[s] = 1
    /\ \A p \in Procs : \A k \in Keys :
          LET s == <<"r", k>> IN
          (DoneAt(p, k) /\ loc[p].hot /\ invCalls[s] = 0) =>
             /\ loc[p].called = 0
             /\ res[p] = val[s] /\ res[p] # Nil

\* a Preheat of a list naming a key twice returned nil, each key of the
\* list was loaded once, and a Get that began afterwards was served the
\* value without a load
C20_Witness ==
    \E l \in heated : \E p \in Procs :
        /\ Len(l) > Cardinality({l[n] : n \in 1..Len(l)})
        /\ \A n \in 1..Len(l) : LoaderCalls(<<"r", l[n]>>) = 1
        /\ DoneAt(p, l[1]) /\ loc[p].hot /\ loc[p].called = 0
        /\ res[p] = 1

\* p has returned from Preheat with the error of its Get number n
Stopped(p, n) ==
    /\ op[p] = "Preheat" /\ pc[p] = "idle" /\ res[p] # Nil
    /\ loc[p].i = n + 1

\* C21: Preheat reads the keys of its list in order, one Get at a time, and
\* only after a Get that succeeded; the error of a Get ends it at once with
\* that error wrapped with the key of that Get, and the step changes no
\* Value.  When it has returned the error, the keys before the failing one
\* that nobody invalidated are still held, and if nothing else was called
\* the keys named only after it have no entry and were never loaded.
C21_PreheatStops ==
    /\ [][ \A p \in Procs :
             pc[p] = "Preheat" =>
                LET ks == loc[p].keys
                    i == loc[p].i
                IN IF res[p] \in Errs
                   THEN /\ pc'[p] = "Preheat" \/ pc'[p] = "idle"
                        /\ pc'[p] = "idle" =>
                              /\ res'[p] = Wrap(ks[i - 1], res[p])
                              /\ WrapKey(res'[p]) = key[p]
                              /\ Unwrap(res'[p]) = res[p]
                              /\ loc'[p].i = i
                              /\ UNCHANGED <<val, values, okLoads, failedLoads>>
                   ELSE pc'[p] = "mGet" =>
                           /\ i <= Len(ks) /\ key'[p] = ks[i]
                           /\ loc'[p].i = i + 1 ]_vars
    /\ [] \A p \in Procs :
             (op[p] = "Preheat" /\ pc[p] \notin {"idle", "Preheat"}) =>
                key[p] = loc[p].keys[loc[p].i - 1]
    /\ [] \A p \in Procs : \A n \in 1..Len(loc[p].keys) :
             Stopped(p, n) =>
                LET ks == loc[p].keys IN
                /\ \A j \in 1..(n - 1) :
                      invCalls[<<"r", ks[j]>>] = 0 =>
                         /\ ks[j] \in values["r"]
                         /\ val[<<"r", ks[j]>>] # Nil
                         /\ okLoads[<<"r", ks[j]>>] >= 1
                /\ calls = 1 =>
                      \A k \in Keys \ {ks[j] : j \in 1..n} :
                         /\ LoaderCalls(<<"r", k>>) = 0
                         /\ k \notin values["r"]

\* Preheat of the keys 1, 2, 1 was the only call: the Get of key 2 failed,
\* Preheat returned its error wrapped with the key 2, and key 1 is held
C21_Witness ==
    \E p \in Procs :
        /\ Stopped(p, 2) /\ loc[p].keys = <<1, 2, 1>> /\ calls = 1
        /\ res[p] = Wrap(2, Err)
        /\ okLoads[<<"r", 1>>] = 1 /\ val[<<"r", 1>>] = 1
        /\ LoaderCalls(<<"r", 1>>) = 1 /\ failedLoads[<<"r", 2>>] = 1

\* C22: SetTTLPolicy changes the ttl and the deadline of no entry; an entry
\* keeps for its whole life the ttl it was created with, which is the
\* policy of the moment populate created it (none before the first
\* SetTTLPolicy).  A value loaded into an entry with a ttl d has its
\* deadline d after the load: a Get whose check runs before it is served
\* the value, one whose check runs after it goes on to load.
C22_PolicyForNewEntries ==
    /\ [][ mcTtl' # mcTtl => UNCHANGED <<val, ttl, expiration, values>> ]_vars
    /\ [][ \A k \in Keys :
             LET s == <<"r", k>> IN
             /\ (k \in values["r"] /\ k \in values'["r"]) => ttl'[s] = ttl[s]
             /\ (k \notin values["r"] /\ k \in values'["r"]) =>
                    /\ ttl'[s] = mcTtl["r"] /\ val'[s] = Nil
             /\ (okLoads'[s] # okLoads[s] /\ ttl[s] > 0) =>
                    expiration'[s] = now + ttl[s] ]_vars
    /\ [] \A k \in values["r"] :
             LET s == <<"r", k>> IN
             (val[s] # Nil /\ ttl[s] > 0) => expiration[s] = loadTime[s] + ttl[s]
    /\ [][ \A p \in Procs :
             LET s == S(p) IN
             (Checks(p) /\ at[p] = "r" /\ val[s] # Nil) =>
                /\ (ttl[s] = 0 \/ now < loadTime[s] + ttl[s]) => Serves(p)
                /\ (ttl[s] > 0 /\ now > loadTime[s] + ttl[s]) => ~Serves(p) ]_vars

\* key 1 got its entry before SetTTLPolicy and has no ttl, key 2 got its
\* entry afterwards and has the ttl of the policy; time has passed, the
\* value of key 2 has expired and the value of key 1 has not
C22_Witness ==
    /\ mcTtl["r"] > 0 /\ values["r"] = {1, 2}
    /\ ttl[<<"r", 1>>] = 0 /\ val[<<"r", 1>>] # Nil
    /\ ttl[<<"r", 2>>] = mcTtl["r"] /\ val[<<"r", 2>>] # Nil
    /\ now > loadTime[<<"r", 2>>] + mcTtl["r"]
    /\ now > loadTime[<<"r", 1>>] + mcTtl["r"]
    /\ expired = {<<(<<"r", 2>>), val[<<"r", 2>>]>>}
    /\ ~Servable(<<"r", 2>>) /\ Servable(<<"r", 1>>)

\* C23: a MultiCache.Get(k) whose load failed returns an error that wraps
\* the error of the loader together with the key k.
C23_ErrorNamesKey ==
    \A p \in Procs : \A k \in Keys :
        (DoneAt(p, k) /\ loc[p].how = "failed") =>
           /\ WrapKey(res[p]) = k
           /\ Unwrap(res[p]) = Err

\* C24: a Get(k) of the buffered MultiCache returns the zero value and no
\* error when it begins while k was never Set, or after an Unset(k) returned
\* that had no Set of k running beside it, and no Set of k has been called
\* since, whatever was Set before the Unset.
C24_ZeroAfterUnset ==
    \A p \in Procs :
        (Done(p) /\ at[p] = "r" /\ loc[p].clr) => res[p] = 0

\* a value was Set for a key, Unset returned and a Get that began after it
\* returned the zero value, loaded from the new atom of the key
C24_Witness ==
    \E p \in Procs : \E k \in Keys :
        /\ DoneAt(p, k) /\ loc[p].clr /\ res[p] = 0 /\ loc[p].how = "loaded"
        /\ done[k] \ {0} # {} /\ 0 \in done[k]
        /\ created[<<"w", k>>] = 2 /\ atoms[1] # 0 /\ atoms[2] = 0

\* the goroutines are scheduled, the loader and the hook return, and a
\* select with a ready case takes one
FairF ==
    /\ WF_vars(WatcherAdd) /\ WF_vars(wExit) /\ WF_vars(wEvent)
    /\ WF_vars(wInvalidate) /\ WF_vars(wError)
    /\ \A p \in Procs :
          WF_vars(Get(p) \/ loadLock(p) \/ floading(p) \/ fstore(p) \/ Invalidate(p))

SpecFileLive == SpecFile /\ FairF

\* the watcher goroutine has returned
Exited == wpc \in {"exited", "failed"}

\* C25: once the context is cancelled the watcher goroutine returns, and
\* watcher.Close() has been called exactly once when it has returned and
\* not before.  Neither the cancellation nor the return of the goroutine
\* changes the Value or calls the hook, and a value that is held is served
\* by every check of a Get after the cancellation.
C25_CancelStopsWatcher ==
    /\ ctxDone ~> Exited
    /\ [](closes = IF Exited THEN 1 ELSE 0)
    /\ [][ (parentDone' # parentDone \/ closes' # closes) =>
             UNCHANGED <<valueVars, hookCalls, invCalls, okLoads, failedLoads>> ]_vars
    /\ [][ \A p \in Procs :
             (Checks(p) /\ parentDone /\ val[V] # Nil) =>
                (Serves(p) /\ res'[p] = val[V]) ]_vars

\* the file was loaded, the caller cancelled the context, the watcher
\* goroutine returned and closed the watcher, and a Get that began after
\* that was served the value loaded before, with no hook call
C25_Witness ==
    /\ parentDone /\ wpc = "exited" /\ closes = 1
    /\ okLoads[V] = 1 /\ failedLoads[V] = 0 /\ hookCalls[V] = 0 /\ invCalls[V] = 0
    /\ \E p \in Procs :
          Done(p) /\ loc[p].gone /\ loc[p].how = "fast" /\ res[p] = val[V]

\* C26: an error of the watcher is logged and nothing else: the step that
\* logs it leaves the goroutine in its select, the Value, the hook, the
\* pending events, the context and every Get as they were; a matching
\* event taken afterwards still leads to _cache.Invalidate(), which clears
\* the Value; and an error a Get returns is an error of the loader.
C26_WatchErrorOnlyLogged ==
    /\ [][ (wpc = "select" /\ log'.Error # log.Error) =>
             /\ log'.Error = log.Error + 1
             /\ wpc' = "select"
             /\ UNCHANGED <<valueVars, procVars, events, ctxDone, closes,
                            hookCalls, invCalls, okLoads, failedLoads, failed>> ]_vars
    /\ [][ (wpc = "select" /\ wpc' # "exited" /\ events # << >>
               /\ events' = Tail(events) /\ Head(events) = "file") =>
             wpc' = "invalidate" ]_vars
    /\ [][ (wpc = "invalidate" /\ wpc' # wpc) =>
             /\ wpc' = "select"
             /\ val'[V] = Nil
             /\ invCalls'[V] = invCalls[V] + 1 ]_vars
    /\ [] \A p \in Procs :
             (Done(p) /\ res[p] \in Errs) => (res[p] = Err /\ failedLoads[V] > 0)

\* the watcher reported an error while the Value held the file's content;
\* the error was logged, the goroutine went on to take a matching event and
\* is about to invalidate the Value, which still holds the content
C26_Witness ==
    /\ log.Error = 1 /\ log.Event = 1 /\ errs = 0
    /\ wpc = "invalidate"
    /\ val[V] # Nil /\ okLoads[V] = 1 /\ failedLoads[V] = 0 /\ invCalls[V] = 0
    /\ ~ctxDone

\* ------------------------------------------------- New and NewEager
InitE ==
    /\ InitValue /\ InitMulti /\ InitProcs /\ InitHist /\ InitBuf /\ InitFile
    /\ kind \in {"New", "NewEager"}

NextE ==
    \/ \E p \in Procs : CallNewEager(p)
    \/ \E p \in Procs : Usable /\ CallGet(p)
    \/ \E p \in Procs : Get(p)
    \/ \E p \in Procs : loadLock(p)
    \/ \E p \in Procs : loading(p)
    \/ \E p \in Procs : Usable /\ CallInvalidate(p)
    \/ \E p \in Procs : Invalidate(p)

SpecEager == InitE /\ [][NextE]_vars

\* C27: the loader runs only inside a Get, and with New only inside a Get
\* of a caller, so not before the first one.  When NewEager returns the
\* loader has run exactly once: with a value, which the Value then holds,
\* or with an error, which NewEager returns and after which there is no
\* Value to call.  Until an Invalidate, a Get on the Value NewEager
\* returned is served that value and the loader is not called again.
C27_EagerLoadsOnce ==
    /\ [][ LoaderCalls(V)' # LoaderCalls(V) =>
             \E p \in Procs :
                /\ pc[p] = "loading"
                /\ op[p] = IF kind = "New" THEN "Get" ELSE op[p]
                /\ op[p] \in {"Get", "NewEager"} ]_vars
    /\ [] ((\A p \in Procs : op[p] = None) => LoaderCalls(V) = 0)
    /\ [] \A p \in Procs :
             (Built(p) /\ calls = 0) =>
                /\ LoaderCalls(V) = 1
                /\ IF res[p] \in Errs
                   THEN res[p] = Err /\ failedLoads[V] = 1 /\ val[V] = Nil /\ ~Usable
                   ELSE res[p] = 1 /\ okLoads[V] = 1 /\ Usable
                        /\ (invCalls[V] = 0 => val[V] = res[p])
    /\ [][ (\E p \in Procs : Built(p) /\ res[p] \in Errs) => UNCHANGED vars ]_vars
    /\ [] ((kind = "NewEager" /\ Usable /\ invCalls[V] = 0) =>
             /\ LoaderCalls(V) = 1
             /\ \A p \in Procs :
                   Done(p) => (loc[p].how = "fast" /\ res[p] = val[V]))

\* NewEager returned a Value after one loader call, and a Get made on it
\* afterwards was served the value without a second call
C27_Witness ==
    /\ kind = "NewEager" /\ Usable
    /\ okLoads[V] = 1 /\ failedLoads[V] = 0 /\ invCalls[V] = 0
    /\ \E p \in Procs : Done(p) /\ loc[p].how = "fast" /\ res[p] = 1 /\ calls >= 1

\* ------------------------------- SetTTL and SetTTLPolicy with any duration
\* one Value made by New, as New leaves it or after v.SetTTL(d) and
\* v.EnableGetTTLRefresh(), and one MultiCache made by NewMulti
InitT == InitM \/ InitR

NextT ==
    \/ \E p \in Procs : CallGet(p)
    \/ \E p \in Procs, k \in Keys : MCallGet(p, "r", k)
    \/ \E p \in Procs : mGet(p)
    \/ \E p \in Procs : populate(p)
    \/ \E p \in Procs : Get(p)
    \/ \E p \in Procs : refreshTimer(p)
    \/ \E p \in Procs : refreshLock(p)
    \/ \E p \in Procs : loadLock(p)
    \/ \E p \in Procs : loading(p)
    \/ \E p \in Procs : mloading(p)
    \/ \E p \in Procs : CallInvalidate(p)
    \/ \E p \in Procs : Invalidate(p)
    \/ EnableGetTTLRefresh
    \/ \E p \in Procs, d \in Durations : CallSetTTL(p, d)
    \/ \E p \in Procs : lockedSetTTL(p)
    \/ \E p \in Procs, d \in Durations : CallSetTTLPolicy(p, d)
    \/ \E p \in Procs : lockedSetTTLPolicy(p)

SpecTTL == InitT /\ [][NextT]_vars

\* goroutine p returns from SetTTL or SetTTLPolicy called with d <= 0
Rejects(p) ==
    /\ pc[p] \in {"SetTTL", "SetTTLPolicy"}
    /\ pc'[p] = "idle"
    /\ loc[p].arg <= 0

\* C28: SetTTL(d) and SetTTLPolicy(d) with d <= 0 panic, and that is all
\* they do: ttl, deadline, read-refresh flag, held value, policy, entries
\* and the locks of the Value and of the MultiCache are as before the call,
\* so the lock the call took is free again; with d > 0 the call does not
\* panic.
C28_BadTtlPanics ==
    /\ [][ \A p \in Procs :
             Rejects(p) =>
                /\ res'[p] = Panic
                /\ UNCHANGED <<valueVars, multiVars, histVars>>
                /\ IF op[p] = "SetTTL" THEN mux'[V] = None ELSE lock'["r"] = {} ]_vars
    /\ [] \A p \in Procs :
             (Panicked(p) <=> /\ pc[p] = "idle"
                              /\ op[p] \in {"SetTTL", "SetTTLPolicy"}
                              /\ loc[p].arg <= 0)

\* the Value had ttl 2 and read-refresh enabled, a SetTTL with a duration
\* <= 0 panicked, and a Get that began after the panic returned a value,
\* with the ttl still 2 and read-refresh still enabled
C28_Witness ==
    \E p, q \in Procs :
        /\ Panicked(q) /\ op[q] = "SetTTL"
        /\ Done(p) /\ loc[p].pan /\ res[p] = val[V] /\ val[V] # Nil
        /\ ttl[V] = 2 /\ getRefreshes[V]

\* --------------------- the buffered MultiCache, every call to its return
\* a step of a call that goroutine p has made
StepW(p) ==
    \/ mLock(p) \/ mGet(p) \/ populate(p) \/ Get(p) \/ loadLock(p) \/ rloading(p)
    \/ wloading(p) \/ atomLoad(p) \/ Store(p) \/ mInvalidate(p)

NextW ==
    \/ \E p \in Procs, k \in Keys : calls < MaxBufCalls /\ BCallGet(p, k)
    \/ \E p \in Procs, k \in Keys : calls < MaxBufCalls /\ BCallSet(p, k)
    \/ \E p \in Procs, k \in Keys : calls < MaxBufCalls /\ BCallUnset(p, k)
    \/ \E p \in Procs, k \in Keys : calls < MaxBufCalls /\ BCallInvalidate(p, k)
    \/ calls < MaxBufCalls /\ MOnInvalidate
    \/ \E p \in Procs : mLock(p)
    \/ \E p \in Procs : mGet(p)
    \/ \E p \in Procs : populate(p)
    \/ \E p \in Procs : Get(p)
    \/ \E p \in Procs : loadLock(p)
    \/ \E p \in Procs : rloading(p)
    \/ \E p \in Procs : wloading(p)
    \/ \E p \in Procs : atomLoad(p)
    \/ \E p \in Procs : Store(p)
    \/ \E p \in Procs : mInvalidate(p)

\* every goroutine that can take a step of its call takes one in the end:
\* the scheduler runs it, and a lock that stays free is given to it
SpecBufLive == InitB /\ [][NextW]_vars /\ \A p \in Procs : WF_vars(StepW(p))

\* goroutine p waits for a lock that goroutine q holds or is ahead for:
\* RLock of a MultiCache behind a pending writer, Lock of a MultiCache
\* against a reader, a lock of the Value against the loader that holds it
WaitsFor(p, q) ==
    \/ pc[p] = "mGet" /\ q \in Pending(at[p])
    \/ /\ pc[p] \in {"populate", "populateLock", "mInvalidate", "mInvalidateLock"}
       /\ q \in lock[at[p]]
    \/ pc[p] \in {"Get", "load"} /\ mux[S(p)] = q

\* C29: in the buffered MultiCache every call returns, whatever Gets, Sets,
\* Unsets, Invalidates and OnInvalidates of the same and of different keys
\* run beside it: the calls being finitely many, from some moment on no
\* goroutine is inside a call.  And no set of goroutines waits in a cycle
\* for the locks of the read cache, of the write buffer and of their
\* Values.
C29_DeadlockFree ==
    /\ <>[](\A p \in Procs : pc[p] = "idle")
    /\ [] \A G \in (SUBSET Procs) \ {{}} :
             \E p \in G : \A q \in G : ~WaitsFor(p, q)

\* a Get holds the read lock of the read cache while its loader is inside
\* the write buffer, about to take that cache's lock in populate, and an
\* Invalidate has called Lock on the read cache and waits for the Get
C29_Witness ==
    \E p, q \in Procs :
        /\ p \in lock["r"] /\ at[p] = "w" /\ pc[p] \in {"populate", "populateLock"}
        /\ pc[q] = "mInvalidateLock" /\ at[q] = "r"
        /\ WaitsFor(q, p) /\ ~WaitsFor(p, q)

\* ----------------------------- the MultiCache, every call to its return
\* a step of a call that goroutine p has made
StepM(p) ==
    \/ mLock(p) \/ mGet(p) \/ populate(p) \/ Get(p) \/ loadLock(p) \/ mloading(p)
    \/ mInvalidate(p)

NextL ==
    \/ \E p \in Procs, k \in Keys : MCallGet(p, "r", k)
    \/ \E p \in Procs, k \in Keys : MCallInvalidate(p, "r", k)
    \/ \E p \in Procs : mLock(p)
    \/ \E p \in Procs : mGet(p)
    \/ \E p \in Procs : populate(p)
    \/ \E p \in Procs : Get(p)
    \/ \E p \in Procs : loadLock(p)
    \/ \E p \in Procs : mloading(p)
    \/ \E p \in Procs : mInvalidate(p)

\* the scheduler runs every goroutine, the loader returns, and a lock that
\* stays free is given to the goroutine that waits for it
SpecMultiLive == InitM /\ [][NextL]_vars /\ \A p \in Procs : WF_vars(StepM(p))

\* goroutine p returns from populate to the retry of MultiCache.Get
Populated(p) == pc[p] \in {"populate", "populateLock"} /\ pc'[p] = "mGet"

\* C30: MultiCache.Get returns.  The calls being finitely many, from some
\* moment on no goroutine is inside one.  When populate returns the key has
\* an entry, the retry takes the miss path only when the key has none, and
\* only an Invalidate of the key deletes an entry; so a retry misses only
\* after an Invalidate of the key that came between, and the entries made
\* for a key are at most one more than the Invalidates that deleted one.
C30_GetTerminates ==
    /\ <>[](\A p \in Procs : pc[p] = "idle")
    /\ [][ \A p \in Procs : Populated(p) => key[p] \in values'[at[p]] ]_vars
    /\ [][ \A p \in Procs :
             (pc[p] = "mGet" /\ pc'[p] # "mGet") =>
                (pc'[p] = IF key[p] \in values[at[p]] THEN "Get" ELSE "populate") ]_vars
    /\ [][ \A k \in Keys :
             (k \in values["r"] /\ k \notin values'["r"]) =>
                /\ invCalls'[<<"r", k>>] = invCalls[<<"r", k>>] + 1
                /\ \E q \in Procs :
                      /\ op[q] = "Invalidate" /\ key[q] = k
                      /\ pc[q] \in {"mInvalidate", "mInvalidateLock"}
                      /\ pc'[q] = "idle" ]_vars
    /\ [] \A k \in Keys : created[<<"r", k>>] <= 1 + invCalls[<<"r", k>>]

\* the only calls were one Get and one Invalidate of the same key: the Get
\* populated, the Invalidate deleted the entry before the retry, the Get
\* populated again and returned the loaded value
C30_Witness ==
    \E p, q \in Procs :
        /\ calls = 2 /\ op[q] = "Invalidate" /\ pc[q] = "idle" /\ key[q] = key[p]
        /\ Done(p) /\ at[p] = "r"
        /\ created[S(p)] = 2 /\ invCalls[S(p)] = 1
        /\ res[p] = val[S(p)] /\ res[p] # Nil

\* goroutine p is inside c.Get() of the Value of key k, under the RLock of
\* the MultiCache
Reading(p, k) ==
    /\ at[p] = "r" /\ key[p] = k
    /\ pc[p] \in {"Get", "load", "loading", "refreshTimer", "refreshLock"}

\* C31: MultiCache.Invalidate(k) takes effect only while no Get is inside
\* c.Get(): no goroutine holds the RLock in the step that invalidates the
\* Value and deletes the entry.  A loader runs and its result is stored only
\* for a key that has its entry before and after the step, and no
\* Invalidate is counted while a loader runs.  A Get is never served a
\* value loaded before an Invalidate that had returned when the Get began:
\* it calls the loader itself, or the value it is served was stored after
\* every Invalidate counted when it began.
C31_InvalidateWaitsForGets ==
    /\ [][ \A k \in Keys :
             LET s == <<"r", k>> IN
             (invCalls'[s] # invCalls[s] \/ (k \in values["r"] /\ k \notin values'["r"])) =>
                /\ lock["r"] = {}
                /\ \A p \in Procs : ~Reading(p, k)
                /\ mux[s] = None ]_vars
    /\ [][ \A k \in Keys :
             LET s == <<"r", k>> IN
             (mux[s] # None \/ okLoads'[s] # okLoads[s]) =>
                /\ k \in values["r"] /\ k \in values'["r"]
                /\ invCalls'[s] = invCalls[s] ]_vars
    /\ [] \A p \in Procs : ~loc[p].stale
    /\ [] \A p \in Procs : \A k \in Keys :
             (DoneAt(p, k) /\ res[p] \notin Errs) =>
                /\ loc[p].how = "loaded" <=> loc[p].called = 1
                /\ epoch[<<"r", k>>] >= loc[p].inv \/ val[<<"r", k>>] = Nil

\* a Get loaded the first value of a key, an Invalidate of the key
\* returned, and a Get that began after it called the loader and returned
\* the second value
C31_Witness ==
    \E k \in Keys : \E p, q \in Procs :
        LET s == <<"r", k>> IN
        /\ p # q
        /\ DoneAt(p, k) /\ loc[p].inv = 0 /\ res[p] = 1 /\ loc[p].how = "loaded"
        /\ DoneAt(q, k) /\ loc[q].inv = 1 /\ res[q] = 2 /\ loc[q].how = "loaded"
        /\ invCalls[s] = 1 /\ okLoads[s] = 2 /\ calls = 3

\* the watcher goroutine takes an event of another file from watcher.Events
TakesOther ==
    /\ wpc = "select" /\ wpc' # "exited"
    /\ events # << >> /\ Head(events) = "other"
    /\ events' = Tail(events)

\* C32: an event of another file of the directory is given to
\* log.UnrelatedEvent and to nothing else: the goroutine is back in its
\* select, and the Value, the loader and hook counts and every caller are as
\* before; nor does the arrival of such an event change them.  The Value is
\* invalidated only by the goroutine after an event of the file itself, or
\* by a caller's Invalidate.
C32_UnrelatedEventIgnored ==
    /\ [][ TakesOther =>
             /\ log' = [log EXCEPT !.UnrelatedEvent = @ + 1]
             /\ wpc' = "select"
             /\ UNCHANGED <<valueVars, procVars, okLoads, failedLoads, hookCalls,
                            invCalls, ctxDone, closes, seen>> ]_vars
    /\ [][ log'.UnrelatedEvent # log.UnrelatedEvent => TakesOther ]_vars
    /\ [][ (Len(events') > Len(events)) =>
             UNCHANGED <<valueVars, procVars, okLoads, failedLoads, hookCalls,
                         invCalls, log, wpc>> ]_vars
    /\ [][ invCalls'[V] # invCalls[V] =>
             \/ wpc = "invalidate" /\ wpc' = "select"
             \/ \E p \in Procs : pc[p] = "Invalidate" /\ pc'[p] = "idle" ]_vars
    /\ [][ (wpc' = "invalidate" /\ wpc # "invalidate") =>
             (events # << >> /\ Head(events) = "file") ]_vars

\* the file was loaded, two other files of the directory changed, both
\* events were logged as unrelated, and a Get that began afterwards was
\* served the value of the one load
C32_Witness ==
    /\ log.UnrelatedEvent = 2 /\ log.Event = 0 /\ events = << >> /\ wpc = "select"
    /\ okLoads[V] = 1 /\ failedLoads[V] = 0 /\ invCalls[V] = 0 /\ hookCalls[V] = 0
    /\ val[V] = 1
    /\ \E p \in Procs : Done(p) /\ res[p] = 1

\* the content of the write cell of key k: what atom.Load() of the atom its
\* write buffer holds gives, the zero value when the buffer has no atom for
\* k (the loader of the write buffer makes a new atom holding zero)
CellValue(k) ==
    IF k \in values["w"] /\ val[<<"w", k>>] # Nil
    THEN atoms[val[<<"w", k>>]]
    ELSE 0

\* a goroutine is inside Set(k, _) or Unset(k)
WriteRunning(k) ==
    \E q \in Procs : op[q] \in {"Set", "Unset"} /\ pc[q] # "idle" /\ key[q] = k

\* goroutine p returns from the call of operation o
Returns(p, o) == op[p] = o /\ pc[p] # "idle" /\ pc'[p] = "idle"

\* C33: the buffered Invalidate(k) removes the entry of k from the read cache
\* and nothing else: the write buffer, its Values and every atom are as
\* before, and so is the read-cache entry of every other key.  A Get(k) that
\* returns while no Set or Unset of k is running returns the content of the
\* write cell of k, which is the value of a Set(k, _) that no other Set
\* superseded, or zero when k has no atom.
C33_InvalidateKeepsWrite ==
    /\ [][ \A p \in Procs :
             Returns(p, "Invalidate") =>
                 /\ atoms' = atoms
                 /\ values'["w"] = values["w"]
                 /\ \A j \in Keys : val'[<<"w", j>>] = val[<<"w", j>>]
                 /\ values'["r"] = values["r"] \ {key[p]}
                 /\ \A j \in Keys \ {key[p]} : val'[<<"r", j>>] = val[<<"r", j>>]
                 /\ \A j \in Keys : CellValue(j)' = CellValue(j) ]_vars
    /\ [][ \A p \in Procs :
             (Returns(p, "Get") /\ ~WriteRunning(key[p])) =>
                 res'[p] = CellValue(key[p]) ]_vars
    /\ [] \A k \in Keys :
             ~WriteRunning(k) =>
                 /\ CellValue(k) \in done[k]
                 /\ (k \in values["r"] /\ val[<<"r", k>>] # Nil) =>
                        val[<<"r", k>>] = CellValue(k)

\* a Set(k, v) returned, a Get(k) returned v, and an Invalidate(k) that
\* returned after them removed the read-cache entry: the write cell still
\* holds v
C33_Witness ==
    \E p, q \in Procs : \E k \in Keys :
        /\ p # q
        /\ op[p] = "Invalidate" /\ pc[p] = "idle" /\ key[p] = k
        /\ DoneAt(q, k) /\ res[q] # 0
        /\ invCalls[<<"r", k>>] = 1
        /\ k \notin values["r"]
        /\ k \in values["w"]
        /\ CellValue(k) = res[q]
        /\ done[k] = {0, res[q]}

\* ------------- hooks of the buffered MultiCache and of its read cache
\* the key whose hook is followed
HookKeys == {1}

\* Get, Set, Unset, Invalidate and OnInvalidate of the buffered MultiCache;
\* its Invalidate and OnInvalidate are those of the read cache, a
\* cache.MultiCache
NextH ==
    \/ \E p \in Procs, k \in HookKeys : BCallGet(p, k)
    \/ \E p \in Procs, k \in HookKeys : BCallSet(p, k)
    \/ \E p \in Procs, k \in HookKeys : BCallUnset(p, k)
    \/ \E p \in Procs, k \in HookKeys : BCallInvalidate(p, k)
    \/ MOnInvalidate
    \/ \E p \in Procs : mGet(p)
    \/ \E p \in Procs : populate(p)
    \/ \E p \in Procs : Get(p)
    \/ \E p \in Procs : loadLock(p)
    \/ \E p \in Procs : rloading(p)
    \/ \E p \in Procs : wloading(p)
    \/ \E p \in Procs : atomLoad(p)
    \/ \E p \in Procs : Store(p)
    \/ \E p \in Procs : mInvalidate(p)

SpecHook == InitB /\ [][NextH]_vars

\* goroutine p is in readCache.Invalidate(k), called by Invalidate, Set or
\* Unset
Invalidating(p, k) ==
    /\ pc[p] = "mInvalidate" /\ at[p] = "r" /\ key[p] = k
    /\ op[p] \in {"Invalidate", "Set", "Unset"}

\* C34: fn is held by the Value of the key, and only by a Value that is in
\* the map.  It is set by an OnInvalidate(k, fn) that finds the entry; it is
\* called by the Invalidate, Set or Unset that removes the entry, once, and
\* in the same step the entry and fn are gone; it is called in no other
\* step.  So the calls of fn are no more than the Values the key has had,
\* and a Value made after the removal has no fn until OnInvalidate is called
\* again.  The Values of the write buffer have no fn.
C34_HookOncePerRegistration ==
    /\ [][ \A k \in Keys :
             hookCalls'[<<"r", k>>] # hookCalls[<<"r", k>>] =>
                 /\ hookCalls'[<<"r", k>>] = hookCalls[<<"r", k>>] + 1
                 /\ onInvalidate[<<"r", k>>] /\ ~onInvalidate'[<<"r", k>>]
                 /\ k \in values["r"] /\ k \notin values'["r"]
                 /\ \E p \in Procs : Invalidating(p, k) /\ pc'[p] = "idle" ]_vars
    /\ [][ \A k \in Keys :
             (k \in values["r"] /\ k \notin values'["r"]) =>
                 /\ ~onInvalidate'[<<"r", k>>]
                 /\ hookCalls'[<<"r", k>>] =
                        hookCalls[<<"r", k>>] + (IF onInvalidate[<<"r", k>>] THEN 1 ELSE 0) ]_vars
    /\ [][ \A k \in Keys :
             (~onInvalidate[<<"r", k>>] /\ onInvalidate'[<<"r", k>>]) =>
                 /\ k \in values["r"] /\ k \in values'["r"]
                 /\ calls' = calls + 1 /\ pc' = pc ]_vars
    /\ [] \A k \in Keys :
             /\ onInvalidate[<<"r", k>>] => k \in values["r"]
             /\ hookCalls[<<"r", k>>] <= created[<<"r", k>>]
             /\ hookCalls[<<"r", k>>] <= invCalls[<<"r", k>>]
             /\ hookCalls[<<"r", k>>] + (IF onInvalidate[<<"r", k>>] THEN 1 ELSE 0)
                    <= calls
             /\ ~onInvalidate[<<"w", k>>] /\ hookCalls[<<"w", k>>] = 0

\* fn was set on the Value of a key, a Set of the key called it once and
\* removed the entry, and the Value has no fn any more
C34_Witness ==
    \E p \in Procs : \E k \in Keys :
        /\ op[p] = "Set" /\ pc[p] = "idle" /\ key[p] = k
        /\ hookCalls[<<"r", k>>] = 1 /\ invCalls[<<"r", k>>] = 1
        /\ created[<<"r", k>>] = 1
        /\ ~onInvalidate[<<"r", k>>] /\ k \notin values["r"]
        /\ CellValue(k) = loc[p].arg

\* ------------------------- the Value whose loader gives the time to live
\* v := NewWithTTL(loader), and, in the second case, v.Get() that loaded
\* the value 1 with the duration d at time 1
InitTL ==
    /\ InitMulti /\ InitProcs /\ InitBuf /\ InitFile
    /\ kind = "NewWithTTL"
    /\ \/ InitValue /\ InitHist
       \/ /\ val = [s \in Slot |-> IF s = V THEN 1 ELSE Nil]
          /\ \E d \in TTLs :
                /\ ttl = [s \in Slot |-> IF s = V THEN d ELSE 0]
                /\ expiration = [s \in Slot |-> IF s = V THEN 1 + d ELSE ZeroTime]
          /\ getRefreshes = [s \in Slot |-> FALSE]
          /\ onInvalidate = [s \in Slot |-> FALSE]
          /\ mux = [s \in Slot |-> None]
          /\ now = 1
          /\ calls = 0
          /\ okLoads = [s \in Slot |-> IF s = V THEN 1 ELSE 0]
          /\ failedLoads = [s \in Slot |-> 0]
          /\ hookCalls = [s \in Slot |-> 0]
          /\ invCalls = [s \in Slot |-> 0]
          /\ expReloads = [s \in Slot |-> 0]
          /\ failed = [s \in Slot |-> FALSE]
          /\ loadTime = [s \in Slot |-> IF s = V THEN 1 ELSE 0]
          /\ setTime = [s \in Slot |-> 0]
          /\ refreshed = [s \in Slot |-> FALSE]
          /\ lastSet = [s \in Slot |-> FALSE]
          /\ created = [s \in Slot |-> 0]
          /\ touch = [s \in Slot |-> [t |-> 0, d |-> 0]]
          /\ ignored = {}
          /\ heated = {}
          /\ expired = {}
          /\ epoch = [s \in Slot |-> 0]

NextTL ==
    \/ \E p \in Procs : CallGet(p)
    \/ \E p \in Procs : Get(p)
    \/ \E p \in Procs : loadLock(p)
    \/ \E p \in Procs : loading(p)
    \/ \E p \in Procs : CallInvalidate(p)
    \/ \E p \in Procs : Invalidate(p)
    \/ SetTTL
    \/ RemoveTTL
    \/ Tick

SpecLoaderTTL == InitTL /\ [][NextTL]_vars

\* C35: RemoveTTL sets c.ttl to 0 and clears the deadline and leaves the
\* held value, which is served from then on; c.ttl goes from a duration to
\* 0 in no other step.  Every successful load of a NewWithTTL Value, also
\* one that finds c.ttl = 0, sets c.ttl to the duration the loader gave and
\* the deadline to that duration after the load.  A Get returns a held
\* value without a load only when the value has no ttl or its deadline has
\* not passed, and a held value with a ttl whose deadline has passed has
\* expired.
C35_RemoveTTLForHeldValueOnly ==
    /\ [][ (ttl[V] > 0 /\ ttl'[V] = 0) =>
             /\ calls' = calls + 1 /\ pc' = pc
             /\ val' = val /\ okLoads' = okLoads
             /\ expiration'[V] = ZeroTime
             /\ val[V] # Nil => Servable(V)' ]_vars
    /\ [][ okLoads'[V] # okLoads[V] =>
             /\ ttl'[V] \in TTLs
             /\ expiration'[V] = now + ttl'[V]
             /\ val'[V] # Nil /\ val'[V] # val[V]
             /\ Servable(V)'
             /\ \E p \in Procs : loc'[p].got = <<ttl[V], ttl'[V]>> ]_vars
    /\ [][ \A p \in Procs :
             (Returns(p, "Get") /\ res'[p] \notin Errs /\ okLoads' = okLoads) =>
                 /\ res'[p] = val[V]
                 /\ ttl[V] = 0 \/ now <= expiration[V] ]_vars
    /\ [] ((val[V] # Nil /\ ttl[V] > 0 /\ now > expiration[V]) =>
              /\ ~Servable(V)
              /\ <<V, val[V]>> \in expired)

\* the value 1 was loaded with a ttl, RemoveTTL took the ttl away, the
\* value was invalidated, a Get loaded the value 2 finding no ttl and set
\* the loader's duration, and the deadline of the value 2 has passed
C35_Witness ==
    \E p \in Procs :
        /\ Done(p) /\ res[p] = 2 /\ loc[p].how = "loaded"
        /\ loc[p].got[1] = 0 /\ loc[p].got[2] = ttl[V]
        /\ okLoads[V] = 2 /\ failedLoads[V] = 0 /\ invCalls[V] = 1
        /\ val[V] = 2 /\ ttl[V] > 0
        /\ expiration[V] = loadTime[V] + ttl[V]
        /\ now > expiration[V]
        /\ ~Servable(V)
        /\ <<V, 2>> \in expired

\* ------------------------------ a loader that calls back into its Value
\* Two Values made by New stand alone, in V and V2.  The loader of a Value
\* either returns (a value or an error) or calls Get or Invalidate of the
\* Value it loads, in the goroutine that runs Value.load.
Standalone == {V, V2}

\* the goroutine that holds c.mux.Lock in Value.load (line 411) has called
\* c.Get or c.Invalidate from the loader and waits for c.mux
Deadlocked(s) ==
    \E r \in Procs : mux[s] = r /\ S(r) = s /\ pc[r] \in {"Get", "Invalidate"}

\* a caller starts Get of the Value in <<"v", j>>
RCallGet(p, j) ==
    /\ pc[p] = "idle"
    /\ calls < MaxCalls
    /\ calls' = calls + 1
    /\ pc' = [pc EXCEPT ![p] = "Get"]
    /\ op' = [op EXCEPT ![p] = "Get"]
    /\ at' = [at EXCEPT ![p] = "v"]
    /\ key' = [key EXCEPT ![p] = j]
    /\ res' = [res EXCEPT ![p] = Nil]
    /\ loc' = [loc EXCEPT ![p] =
                 [NoLoc EXCEPT !.inv = invCalls[<<"v", j>>],
                               !.stuck = Deadlocked(<<"v", 1 - j>>)]]
    /\ UNCHANGED <<valueVars, multiVars, now, histVars>>
    /\ UNCHANGED <<bufVars, fileVars>>

\* a caller starts Invalidate of the Value in <<"v", j>>
RCallInvalidate(p, j) ==
    /\ pc[p] = "idle"
    /\ calls < MaxCalls
    /\ calls' = calls + 1
    /\ pc' = [pc EXCEPT ![p] = "Invalidate"]
    /\ op' = [op EXCEPT ![p] = "Invalidate"]
    /\ at' = [at EXCEPT ![p] = "v"]
    /\ key' = [key EXCEPT ![p] = j]
    /\ res' = [res EXCEPT ![p] = Nil]
    /\ loc' = [loc EXCEPT ![p] =
                 [NoLoc EXCEPT !.stuck = Deadlocked(<<"v", 1 - j>>)]]
    /\ UNCHANGED <<valueVars, multiVars, now, histVars>>
    /\ UNCHANGED <<bufVars, fileVars>>

\* c.loadFunc() (line 421) calls c.Get() or c.Invalidate() of the Value
\* being loaded: the goroutine goes to c.mux.RLock() (line 384) or
\* c.mux.Lock() (line 434) with the Lock of line 411 still held
loaderCalls(p) ==
    /\ pc[p] = "loading"
    /\ at[p] = "v"
    /\ \E f \in {"Get", "Invalidate"} : pc' = [pc EXCEPT ![p] = f]
    /\ UNCHANGED <<valueVars, multiVars, at, op, key, res, loc, now, calls, histVars>>
    /\ UNCHANGED <<bufVars, fileVars>>

InitRe ==
    /\ InitValue /\ InitMulti /\ InitProcs /\ InitHist /\ InitBuf /\ InitFile
    /\ kind = "New"

\* a step of the call goroutine p has made
StepRe(p) ==
    \/ Get(p) \/ loadLock(p) \/ loading(p) \/ loaderCalls(p) \/ Invalidate(p)

NextRe ==
    \/ \E p \in Procs, j \in {0, 1} : RCallGet(p, j)
    \/ \E p \in Procs, j \in {0, 1} : RCallInvalidate(p, j)
    \/ \E p \in Procs : Get(p)
    \/ \E p \in Procs : loadLock(p)
    \/ \E p \in Procs : loading(p)
    \/ \E p \in Procs : loaderCalls(p)
    \/ \E p \in Procs : Invalidate(p)
    \/ SetTTL

SpecReentrant == InitRe /\ [][NextRe]_vars

\* the scheduler runs every goroutine that can take a step; a goroutine
\* waiting for a lock that is never free takes none
SpecReentrantLive == SpecReentrant /\ \A p \in Procs : WF_vars(StepRe(p))

\* C36: the loader runs with c.mux locked by its goroutine.  When it calls
\* Get or Invalidate of the Value it loads, the Value is deadlocked from
\* that step on: the goroutine stays where it is and keeps the lock, the
\* call never returns, nothing of the Value changes (no load ends, no
\* Invalidate or SetTTL takes effect), and every goroutine inside a call on
\* that Value stays where it is.  A Value is deadlocked in no other way.
\* The other Value is not touched by this: in the end every goroutine has
\* returned from its call or is inside a call on a deadlocked Value.
C36_ReentrantLoaderDeadlocks ==
    /\ [] \A p \in Procs : pc[p] = "loading" => mux[S(p)] = p
    /\ [][ \A p \in Procs :
             (pc[p] = "loading" /\ pc'[p] \in {"Get", "Invalidate"}) =>
                 Deadlocked(S(p))' ]_vars
    /\ [][ \A s \in Standalone :
             (~Deadlocked(s) /\ Deadlocked(s)') =>
                 \E p \in Procs : pc[p] = "loading" /\ S(p) = s /\ mux[s] = p
                                   /\ pc'[p] \in {"Get", "Invalidate"} ]_vars
    /\ [][ \A s \in Standalone :
             Deadlocked(s) =>
                 /\ Deadlocked(s)'
                 /\ mux'[s] = mux[s]
                 /\ val'[s] = val[s] /\ ttl'[s] = ttl[s]
                 /\ expiration'[s] = expiration[s]
                 /\ okLoads'[s] = okLoads[s] /\ failedLoads'[s] = failedLoads[s]
                 /\ invCalls'[s] = invCalls[s] /\ hookCalls'[s] = hookCalls[s]
                 /\ \A q \in Procs :
                       (S(q) = s /\ pc[q] # "idle") =>
                           pc'[q] = pc[q] /\ res'[q] = res[q] /\ S(q)' = s ]_vars
    /\ <>[] (\A p \in Procs : pc[p] = "idle" \/ Deadlocked(S(p)))

\* the loader of the Value in V2 called back into the Value and its Get has
\* not returned; a Get of the Value in V that began after that called the
\* loader of V and returned its value
C36_Witness ==
    \E p, q \in Procs :
        /\ p # q
        /\ S(p) = V2 /\ mux[V2] = p /\ op[p] = "Get" /\ pc[p] = "Get"
        /\ Deadlocked(V2)
        /\ Done(q) /\ S(q) = V /\ loc[q].stuck
        /\ loc[q].how = "loaded" /\ res[q] = val[V] /\ val[V] # Nil
        /\ mux[V] = None

====
